---- MODULE Spec2Model ----
(***************************************************************************)
(* Model of the Obsidian "Date Selector" plugin (src/src/main.ts).         *)
(*                                                                         *)
(* main.ts holds successive versions of the same plugin.  The model covers *)
(*   v2  lines  417-1048: dates wrapped in asterisks, located with         *)
(*       /\*([^*]+)\*/ and validated by moment, '@' fragments parsed;      *)
(*   v3  lines 1049-1547: dates wrapped in asterisks, located with a list  *)
(*       of date-shaped regular expressions, '@' offers fixed suggestions; *)
(*   v1  lines    1-415 : its DateSuggester only (SpecTrigger); its modal  *)
(*       and its command are the code of v3;                               *)
(*   v4  lines 1550-1814: its DateSuggester and its modal (SpecModal); its *)
(*       click handler and its command are not modelled.                   *)
(* The running version is the variable `variant`, fixed by Init.           *)
(*                                                                         *)
(* Text is a sequence of one-character strings; offsets are 0-based as in  *)
(* the editor API (line.substring, EditorPosition.ch).  The document is    *)
(* one line.  moment (2.29, English locale) is modelled by what its        *)
(* format and parse do on such text.                                       *)
(***************************************************************************)
EXTENDS Integers, Sequences, FiniteSets, TLC

VARIABLES
    variant,      \* which version of the plugin runs: "v1", "v2", "v3", "v4"
    settings,     \* plugin.settings: dateFormat (outputFormat in v3),
                  \* enableClickDates, enableAtTrigger (enableAtSuggest in
                  \* v2) and useCustomCalendar
    plugin,       \* what the plugin has registered with the host: its click
                  \* listener and its DateSuggester objects
    today,        \* the date moment() gives
    line,         \* the text of the document's line
    cursor,       \* editor.getCursor().ch, the head of the selection
    anchor,       \* the other end of the editor's selection
    located,      \* what findDateAtPosition returned to the click handled by
                  \* the latest step, and the offset clicked
    lastParsed,   \* the moment the latest step's handler parsed from text
    modal,        \* the DateSelectorModal: open, its selected date (text),
                  \* the range its onSubmit replaces, and who opened it
    calendar,     \* the custom calendar of the open modal: the month shown,
                  \* the focused date and what renderCalendar last drew
    context,      \* the EditorSuggest context onTrigger returned
    suggestions,  \* what getSuggestions returned for that context
    lastEdit,     \* the replaceRange call the latest step made, with the
                  \* line it was made on
    edits         \* how many times the line has been edited, by typing or by
                  \* the plugin's replaceRange

vars == <<variant, settings, plugin, today, line, cursor, anchor, located,
          lastParsed, modal, calendar, context, suggestions, lastEdit, edits>>

----------------------------------------------------------------------------
(* Characters and strings                                                  *)

DigitChars == <<"0", "1", "2", "3", "4", "5", "6", "7", "8", "9">>

UpperChars == <<"A", "B", "C", "D", "E", "F", "G", "H", "I", "J", "K", "L", "M",
                "N", "O", "P", "Q", "R", "S", "T", "U", "V", "W", "X", "Y", "Z">>

LowerChars == <<"a", "b", "c", "d", "e", "f", "g", "h", "i", "j", "k", "l", "m",
                "n", "o", "p", "q", "r", "s", "t", "u", "v", "w", "x", "y", "z">>

Range(s) == {s[i] : i \in DOMAIN s}

DigitSet == Range(DigitChars)

UpperSet == Range(UpperChars)

LetterSet == Range(UpperChars) \cup Range(LowerChars)

IsDigit(c) == c \in DigitSet

IsLetter(c) == c \in LetterSet

\* \w of a JavaScript regular expression
IsWordChar(c) == IsDigit(c) \/ IsLetter(c) \/ c = "_"

DigitVal(c) == (CHOOSE i \in DOMAIN DigitChars : DigitChars[i] = c) - 1

\* String.prototype.toLowerCase on one character
ToLower(c) ==
    IF c \in UpperSet
    THEN LowerChars[CHOOSE i \in DOMAIN UpperChars : UpperChars[i] = c]
    ELSE c

LowerStr(s) == [i \in DOMAIN s |-> ToLower(s[i])]

\* line[i] with a 0-based index; "" stands for JavaScript's undefined
CharAt(s, i) == IF i >= 0 /\ i < Len(s) THEN s[i + 1] ELSE ""

\* String.prototype.substring(a, b) for 0 <= a, b
Substring(s, a, b) ==
    LET lo == IF a < b THEN a ELSE b
        hi == IF a < b THEN b ELSE a
        h  == IF hi > Len(s) THEN Len(s) ELSE hi
    IN  IF lo >= h THEN <<>> ELSE SubSeq(s, lo + 1, h)

\* the rest of s from 0-based offset a
From(s, a) == Substring(s, a, Len(s))

\* String.prototype.lastIndexOf(c), -1 when absent
LastIndexOf(s, c) ==
    IF \E i \in DOMAIN s : s[i] = c
    THEN (CHOOSE i \in DOMAIN s : s[i] = c /\ \A j \in DOMAIN s : s[j] = c => j <= i) - 1
    ELSE -1

\* String.prototype.indexOf(c), -1 when absent
IndexOf(s, c) ==
    IF \E i \in DOMAIN s : s[i] = c
    THEN (CHOOSE i \in DOMAIN s : s[i] = c /\ \A j \in DOMAIN s : s[j] = c => j >= i) - 1
    ELSE -1

\* the white space of the model: the space and the tab (\s, and what
\* String.prototype.trim removes)
WhiteSpace == {" ", "\t"}

\* String.prototype.trim
RECURSIVE TrimLeft(_)
TrimLeft(s) == IF s # <<>> /\ Head(s) \in WhiteSpace THEN TrimLeft(Tail(s)) ELSE s

RECURSIVE TrimRight(_)
TrimRight(s) ==
    IF s # <<>> /\ s[Len(s)] \in WhiteSpace
    THEN TrimRight(SubSeq(s, 1, Len(s) - 1)) ELSE s

\* the text as it is, nothing removed
Untrimmed(s) == s

Trim(s) == TrimRight(TrimLeft(s))

\* length of the longest run of digits of s from 0-based offset i
RECURSIVE DigitRunAt(_, _)
DigitRunAt(s, i) == IF i < Len(s) /\ s[i + 1] \in DigitSet THEN 1 + DigitRunAt(s, i + 1) ELSE 0

\* length of the longest run of letters of s from 0-based offset i
RECURSIVE LetterRunAt(_, _)
LetterRunAt(s, i) == IF i < Len(s) /\ s[i + 1] \in LetterSet THEN 1 + LetterRunAt(s, i + 1) ELSE 0

\* length of the longest run of digits at the start of s
DigitRun(s) == DigitRunAt(s, 0)

\* length of the longest run of letters at the start of s
LetterRun(s) == LetterRunAt(s, 0)

\* the number written by a string of digits
RECURSIVE ToInt(_)
ToInt(s) == IF s = <<>> THEN 0 ELSE 10 * ToInt(SubSeq(s, 1, Len(s) - 1)) + DigitVal(s[Len(s)])

\* String.prototype.padStart(2, '0') of a number below 100, and 4 digits of a year
Pad2(n) == <<DigitChars[((n \div 10) % 10) + 1], DigitChars[(n % 10) + 1]>>

Pad4(n) == Pad2((n \div 100) % 100) \o Pad2(n % 100)

NumStr(n) == IF n < 10 THEN <<DigitChars[n + 1]>> ELSE Pad2(n)

----------------------------------------------------------------------------
(* Calendar math (moment)                                                  *)

isLeapYear(y) == (y % 4 = 0 /\ y % 100 # 0) \/ y % 400 = 0

daysInMonth(y, m) ==
    IF m = 2 THEN (IF isLeapYear(y) THEN 29 ELSE 28)
    ELSE IF m \in {4, 6, 9, 11} THEN 30 ELSE 31

\* a moment: a calendar date, or the invalid moment
Moment(y, m, d) == [valid |-> TRUE, y |-> y, m |-> m, d |-> d]

InvalidMoment == [valid |-> FALSE, y |-> 0, m |-> 0, d |-> 0]

monthsShort ==
    << <<"J", "a", "n">>, <<"F", "e", "b">>, <<"M", "a", "r">>, <<"A", "p", "r">>,
       <<"M", "a", "y">>, <<"J", "u", "n">>, <<"J", "u", "l">>, <<"A", "u", "g">>,
       <<"S", "e", "p">>, <<"O", "c", "t">>, <<"N", "o", "v">>, <<"D", "e", "c">> >>

months ==
    << <<"J", "a", "n", "u", "a", "r", "y">>,
       <<"F", "e", "b", "r", "u", "a", "r", "y">>,
       <<"M", "a", "r", "c", "h">>,
       <<"A", "p", "r", "i", "l">>,
       <<"M", "a", "y">>,
       <<"J", "u", "n", "e">>,
       <<"J", "u", "l", "y">>,
       <<"A", "u", "g", "u", "s", "t">>,
       <<"S", "e", "p", "t", "e", "m", "b", "e", "r">>,
       <<"O", "c", "t", "o", "b", "e", "r">>,
       <<"N", "o", "v", "e", "m", "b", "e", "r">>,
       <<"D", "e", "c", "e", "m", "b", "e", "r">> >>

InvalidDateText == <<"I", "n", "v", "a", "l", "i", "d", " ", "d", "a", "t", "e">>

\* the tokens of a format string that moment gives a meaning; any other
\* character of a format stands for itself
FormatTokens == {"M", "MM", "MMM", "MMMM", "D", "DD", "YY", "YYYY"}

FormatToken(t, dt) ==
    CASE t = "YYYY" -> Pad4(dt.y)
      [] t = "YY"   -> Pad2(dt.y % 100)
      [] t = "MM"   -> Pad2(dt.m)
      [] t = "M"    -> NumStr(dt.m)
      [] t = "DD"   -> Pad2(dt.d)
      [] t = "D"    -> NumStr(dt.d)
      [] t = "MMM"  -> monthsShort[dt.m]
      [] t = "MMMM" -> months[dt.m]
      [] OTHER      -> <<t>>

RECURSIVE FormatFrom(_, _, _)
FormatFrom(dt, fmt, k) ==
    IF k > Len(fmt) THEN <<>> ELSE FormatToken(fmt[k], dt) \o FormatFrom(dt, fmt, k + 1)

\* moment.format(fmt): an invalid moment formats as "Invalid date"
Format(dt, fmt) == IF dt.valid THEN FormatFrom(dt, fmt, 1) ELSE InvalidDateText

\* moment's parseTwoDigitYear
parseTwoDigitYear(n) == n + (IF n > 68 THEN 1900 ELSE 2000)

----------------------------------------------------------------------------
(* moment(string, format, strict): configFromStringAndFormat               *)
(*                                                                         *)
(* Each token of the format is looked for in the rest of the input with    *)
(* an unanchored regular expression; what lies before the match is skipped *)
(* and counts as left over.  A strict parse is valid only when no          *)
(* character is left over and no token is unused.                          *)

NoMatch == [off |-> -1, len |-> 0]

\* leftmost run of at least lo digits from offset i, of which at most hi are
\* taken
RECURSIVE FirstDigitsFrom(_, _, _, _)
FirstDigitsFrom(rest, i, lo, hi) ==
    IF i >= Len(rest) THEN NoMatch
    ELSE LET r == DigitRunAt(rest, i)
         IN  IF r >= lo THEN [off |-> i, len |-> IF r > hi THEN hi ELSE r]
             ELSE FirstDigitsFrom(rest, i + (IF r > 0 THEN r ELSE 1), lo, hi)

FirstDigits(rest, lo, hi) == FirstDigitsFrom(rest, 0, lo, hi)

\* moment's matchWord, /[0-9]{0,256}['a-z...]{1,256}/i: digits, then letters
RECURSIVE FirstWordFrom(_, _)
FirstWordFrom(rest, i) ==
    IF i >= Len(rest) THEN NoMatch
    ELSE LET r == DigitRunAt(rest, i)
             w == LetterRunAt(rest, i + r)
         IN  IF w > 0 THEN [off |-> i, len |-> r + w]
             ELSE FirstWordFrom(rest, i + (IF r > 0 THEN r ELSE 1))

FirstWord(rest) == FirstWordFrom(rest, 0)

\* getParseRegexForToken(token, config) applied to the rest of the input
FindToken(rest, t, strict) ==
    CASE t \in {"M", "D"}   -> FirstDigits(rest, 1, 2)
      [] t \in {"MM", "DD"} -> IF strict THEN FirstDigits(rest, 2, 2) ELSE FirstDigits(rest, 1, 2)
      [] t = "YY"           -> IF strict THEN FirstDigits(rest, 2, 2) ELSE FirstDigits(rest, 1, 2)
      [] t = "YYYY"         -> IF strict THEN FirstDigits(rest, 4, 4) ELSE FirstDigits(rest, 1, 4)
      [] t \in {"MMM", "MMMM"} -> FirstWord(rest)
      [] OTHER              -> [off |-> IndexOf(rest, t), len |-> 1]

monthsLower == [i \in 1..12 |-> LowerStr(months[i])]

monthsShortLower == [i \in 1..12 |-> LowerStr(monthsShort[i])]

\* locale.monthsParse(monthName, format, strict): 1..12, or 0 for null
monthsParse(name, t, strict) ==
    LET n == LowerStr(name)
        startsWith(prefix) ==
            Len(n) >= Len(prefix) /\ SubSeq(n, 1, Len(prefix)) = prefix
        hit(i) == IF strict
                  THEN (IF t = "MMMM" THEN n = monthsLower[i]
                        ELSE n = monthsShortLower[i])
                  ELSE startsWith(monthsLower[i]) \/ startsWith(monthsShortLower[i])
        hits == {i \in 1..12 : hit(i)}
    IN  IF hits = {} THEN 0 ELSE CHOOSE i \in hits : \A j \in hits : i <= j

Unset == -1

EmptyParse == [y |-> Unset, m |-> Unset, d |-> Unset, invalidMonth |-> FALSE,
               unused |-> 0, parsed |-> 0, empty |-> TRUE]

\* addTimeToArrayFromToken: what a matched token stores
StoreToken(st, t, input) ==
    CASE t \in {"M", "MM"} -> [st EXCEPT !.m = ToInt(input)]
      [] t \in {"D", "DD"} -> [st EXCEPT !.d = ToInt(input)]
      [] t = "YY"          -> [st EXCEPT !.y = parseTwoDigitYear(ToInt(input))]
      [] t = "YYYY"        -> [st EXCEPT !.y = IF Len(input) = 2
                                               THEN parseTwoDigitYear(ToInt(input))
                                               ELSE ToInt(input)]
      [] OTHER             -> st

\* what the token t stores when its regular expression matched `input`
\* (found) or did not: the token's parse callback, and unusedTokens
ApplyToken(st, t, found, input, strict) ==
    IF t \in FormatTokens
    THEN IF ~found THEN [st EXCEPT !.unused = @ + 1]
         ELSE IF t \in {"MMM", "MMMM"}
              THEN IF monthsParse(input, t, strict) = 0
                   THEN [st EXCEPT !.invalidMonth = TRUE, !.empty = FALSE]
                   ELSE [st EXCEPT !.m = monthsParse(input, t, strict), !.empty = FALSE]
              ELSE [StoreToken(st, t, input) EXCEPT !.empty = FALSE]
    ELSE IF strict /\ ~found THEN [st EXCEPT !.unused = @ + 1] ELSE st

\* the characters a match consumes are counted as parsed
CountParsed(st, hit) == IF hit.off >= 0 THEN [st EXCEPT !.parsed = @ + hit.len] ELSE st

\* the text a match covers
MatchedInput(rest, hit) ==
    IF hit.off >= 0 THEN Substring(rest, hit.off, hit.off + hit.len) ELSE <<>>

\* the input left after a match
AfterMatch(rest, hit) == IF hit.off >= 0 THEN From(rest, hit.off + hit.len) ELSE rest

\* configFromStringAndFormat's loop over the tokens of the format, from the
\* k-th token on
RECURSIVE ParseTokens(_, _, _, _, _)
RECURSIVE ParseToken(_, _, _, _, _, _)
ParseToken(rest, fmt, k, strict, st, hit) ==
    ParseTokens(AfterMatch(rest, hit), fmt, k + 1, strict,
                ApplyToken(CountParsed(st, hit), fmt[k], hit.off >= 0,
                           MatchedInput(rest, hit), strict))

ParseTokens(rest, fmt, k, strict, st) ==
    IF k > Len(fmt) THEN st
    ELSE ParseToken(rest, fmt, k, strict, st, FindToken(rest, fmt[k], strict))

\* configFromArray: a field the input did not give defaults to the current
\* date's down to the first field given, to the field's minimum after it
DateFields(st, now) ==
    [y |-> IF st.y = Unset THEN now.y ELSE st.y,
     m |-> IF st.m # Unset THEN st.m
           ELSE IF st.y = Unset THEN now.m ELSE 1,
     d |-> IF st.d # Unset THEN st.d
           ELSE IF st.y = Unset /\ st.m = Unset THEN now.d ELSE 1]

\* a validity test that takes any day from 1 to 31 in any month
CheckedLoosely(st, f, leftOver, strict) ==
    IF /\ ~st.empty
       /\ ~st.invalidMonth
       /\ f.m >= 1 /\ f.m <= 12
       /\ f.d >= 1 /\ f.d <= 31
       /\ strict => (leftOver = 0 /\ st.unused = 0)
    THEN Moment(f.y, f.m, f.d)
    ELSE InvalidMoment

\* checkOverflow and isValid: leftOver is the input's length less what the
\* tokens parsed
CheckedMoment(st, f, leftOver, strict) ==
    IF /\ ~st.empty
       /\ ~st.invalidMonth
       /\ f.m >= 1 /\ f.m <= 12
       /\ f.d >= 1 /\ f.d <= daysInMonth(f.y, f.m)
       /\ strict => (leftOver = 0 /\ st.unused = 0)
    THEN Moment(f.y, f.m, f.d)
    ELSE InvalidMoment

ParsedMoment(st, len, strict, now) ==
    CheckedMoment(st, DateFields(st, now), len - st.parsed, strict)

\* moment(str, fmt, strict) with `now` the current date
ParseFormat(str, fmt, strict, now) ==
    ParsedMoment(ParseTokens(str, fmt, 1, strict, EmptyParse), Len(str), strict, now)

\* moment(str, [formats], true): configFromStringAndArray keeps the first
\* format that parses validly (a valid strict parse scores 0)
RECURSIVE ParseFormats(_, _, _, _)
FirstValid(r, str, fmts, k, now) ==
    IF r.valid THEN r ELSE ParseFormats(str, fmts, k + 1, now)

ParseFormats(str, fmts, k, now) ==
    IF k > Len(fmts) THEN InvalidMoment
    ELSE FirstValid(ParseFormat(str, fmts[k], TRUE, now), str, fmts, k, now)

\* moment(str, [formats], true)
ParseStrict(str, fmts, now) == ParseFormats(str, fmts, 1, now)

----------------------------------------------------------------------------
(* Format strings, as their token sequences                                *)

MM_DD_YY     == <<"MM", "/", "DD", "/", "YY">>          \* 'MM/DD/YY'
MMdDDdYY     == <<"MM", "-", "DD", "-", "YY">>          \* 'MM-DD-YY'
YYYYdMMdDD   == <<"YYYY", "-", "MM", "-", "DD">>        \* 'YYYY-MM-DD'
DD_MM_YYYY   == <<"DD", "/", "MM", "/", "YYYY">>        \* 'DD/MM/YYYY'
MM_DD_YYYY   == <<"MM", "/", "DD", "/", "YYYY">>        \* 'MM/DD/YYYY'
MMdDDdYYYY   == <<"MM", "-", "DD", "-", "YYYY">>        \* 'MM-DD-YYYY'
DDpMMpYYYY   == <<"DD", ".", "MM", ".", "YYYY">>        \* 'DD.MM.YYYY'
M_D_YY       == <<"M", "/", "D", "/", "YY">>            \* 'M/D/YY'
MdDdYY       == <<"M", "-", "D", "-", "YY">>            \* 'M-D-YY'
M_D_YYYY     == <<"M", "/", "D", "/", "YYYY">>          \* 'M/D/YYYY'
MdDdYYYY     == <<"M", "-", "D", "-", "YYYY">>          \* 'M-D-YYYY'
MMM_D_YY     == <<"MMM", " ", "D", " ", "YY">>          \* 'MMM D YY'
MMM_D_YYYY   == <<"MMM", " ", "D", " ", "YYYY">>        \* 'MMM D YYYY'
MMMM_D_YY    == <<"MMMM", " ", "D", " ", "YY">>         \* 'MMMM D YY'
MMMM_D_YYYY  == <<"MMMM", " ", "D", " ", "YYYY">>       \* 'MMMM D YYYY'
MMM_Dc_YYYY  == <<"MMM", " ", "D", ",", " ", "YYYY">>   \* 'MMM D, YYYY'
MMMM_Dc_YYYY == <<"MMMM", " ", "D", ",", " ", "YYYY">>  \* 'MMMM D, YYYY'
MMM_Dc_YY    == <<"MMM", " ", "D", ",", " ", "YY">>     \* 'MMM D, YY'
MMMM_Dc_YY   == <<"MMMM", " ", "D", ",", " ", "YY">>    \* 'MMMM D, YY'
MMM_DD_YYYY  == <<"MMM", " ", "DD", " ", "YYYY">>       \* 'MMM DD YYYY'
MMM_DDc_YYYY == <<"MMM", " ", "DD", ",", " ", "YYYY">>  \* 'MMM DD, YYYY'
D_MMM_YYYY   == <<"D", " ", "MMM", " ", "YYYY">>        \* 'D MMM YYYY'
D_MMMM_YYYY  == <<"D", " ", "MMMM", " ", "YYYY">>       \* 'D MMMM YYYY'

----------------------------------------------------------------------------
(* Locating a date in a line: findDateAtPosition                           *)

\* the value returned when no date is found: { foundDate: null, start: -1, end: -1 }
NotFound == [found |-> FALSE, foundDate |-> <<>>, start |-> -1, end |-> -1]

Found(text, s, e) == [found |-> TRUE, foundDate |-> text, start |-> s, end |-> e]

\* the least element of a set of indices, or 0 when it is empty
FirstIndex(S) == IF S = {} THEN 0 ELSE CHOOSE k \in S : \A j \in S : k <= j

\* v2: const supportedFormats
supportedFormats ==
    <<MM_DD_YY, MMdDDdYY, YYYYdMMdDD, DD_MM_YYYY, MM_DD_YYYY,
      MMM_Dc_YYYY, MMMM_Dc_YYYY, MMM_Dc_YY, MMMM_Dc_YY>>

\* length of the longest run of characters other than '*' from offset i
RECURSIVE NonStarRunAt(_, _)
NonStarRunAt(s, i) == IF i < Len(s) /\ s[i + 1] # "*" THEN 1 + NonStarRunAt(s, i + 1) ELSE 0

\* v2: the length of the match of /\*([^*]+)\*/ that starts at offset i with
\* `run` characters other than '*' after the asterisk there, or 0
StarMatchLen(ln, i, run) ==
    IF CharAt(ln, i) = "*" /\ run >= 1 /\ CharAt(ln, i + 1 + run) = "*"
    THEN run + 2 ELSE 0

\* v2: the successive results of dateRegex.exec(line) for /\*([^*]+)\*/g,
\* searching from offset p: [start, end) spans with the asterisks included
RECURSIVE dateRegexMatches(_, _)
dateRegexMatch(ln, p, len) ==
    IF len > 0 THEN <<[start |-> p, end |-> p + len]>> \o dateRegexMatches(ln, p + len)
    ELSE dateRegexMatches(ln, p + 1)

dateRegexMatches(ln, p) ==
    IF p >= Len(ln) THEN <<>>
    ELSE dateRegexMatch(ln, p, StarMatchLen(ln, p, NonStarRunAt(ln, p + 1)))

\* a looser test than v2's: one offset more on either side of the match
InMatch_wide(ch, span) == ch >= span.start - 1 /\ ch <= span.end + 1

\* v2: the click position is within the match, asterisks and the offset
\* after the closing asterisk included (ch >= start && ch <= end)
InMatch_v2(ch, span) == ch >= span.start /\ ch <= span.end

\* v2: match[1], the text between the asterisks
datePart(ln, span) == Substring(ln, span.start + 1, span.end - 1)

\* v2: the match is returned: the click is within it and moment validates
\* its date part against the supported formats
Accepted_v2(ln, ch, now, span) ==
    /\ InMatch_v2(ch, span)
    /\ ParseStrict(datePart(ln, span), supportedFormats, now).valid

\* a return value whose foundDate keeps the asterisks of the match
Return_whole(ln, spans, k) ==
    IF k = 0 THEN NotFound
    ELSE Found(Substring(ln, spans[k].start, spans[k].end), spans[k].start, spans[k].end)

\* v2: the value returned for the k-th match, or for none (k = 0)
Return_v2(ln, spans, k) ==
    IF k = 0 THEN NotFound
    ELSE Found(datePart(ln, spans[k]), spans[k].start, spans[k].end)

\* v2: the while loop over the matches
Locate_v2(ln, ch, now, spans) ==
    Return_v2(ln, spans,
              FirstIndex({k \in DOMAIN spans : Accepted_v2(ln, ch, now, spans[k])}))

\* a RegExp object kept from one call to the next, with the lastIndex the
\* call before left in it
lastIndex_kept == plugin.lastIndex

\* v2: const dateRegex = /\*([^*]+)\*/g inside findDateAtPosition: a new
\* RegExp object, its lastIndex 0, every time the function is called
dateRegex_lastIndex == 0

\* v2: DateSelectorPlugin.findDateAtPosition
findDateAtPosition_v2(ln, ch, now) ==
    Locate_v2(ln, ch, now, dateRegexMatches(ln, dateRegex_lastIndex))

\* v3: the date-shaped regular expressions 1, 2, 3 and 6 of dateFormats, as
\* sequences of character classes: "d" a digit, "s" one of - and /, any other
\* a literal
dateShapes ==
    [ n \in {1, 2, 3, 6} |->
        CASE n = 1 -> <<"d", "d", "d", "d", "-", "d", "d", "-", "d", "d">>
          [] n = 2 -> <<"d", "d", "s", "d", "d", "s", "d", "d", "d", "d">>
          [] n = 3 -> <<"d", "d", "s", "d", "d", "s", "d", "d">>
          [] n = 6 -> <<"d", "d", ".", "d", "d", ".", "d", "d", "d", "d">> ]

InClass(c, cls) ==
    CASE cls = "d" -> IsDigit(c)
      [] cls = "s" -> c \in {"-", "/"}
      [] OTHER     -> c = cls

\* \b of a regular expression at offset i
WordBoundary(ln, i) == IsWordChar(CharAt(ln, i - 1)) # IsWordChar(CharAt(ln, i))

\* length of the longest run of lower-case letters from offset i
RECURSIVE LowerRunAt(_, _)
LowerRunAt(s, i) ==
    IF i < Len(s) /\ s[i + 1] \in Range(LowerChars) THEN 1 + LowerRunAt(s, i + 1) ELSE 0

MonthShortSet == Range(monthsShort)

\* v3: (?:Jan|Feb|...|Dec)[a-z]* at offset i: its length, or 0.  The i flag
\* of the literal is lost in new RegExp(format, 'g').
MonthWordAt(ln, i) ==
    IF Substring(ln, i, i + 3) \in MonthShortSet THEN 3 + LowerRunAt(ln, i + 3) ELSE 0

\* \d{4}\b at offset i
Year4(ln, i) ==
    /\ \A k \in 0..3 : IsDigit(CharAt(ln, i + k))
    /\ WordBoundary(ln, i + 4)

\* v3: \d{1,2}\s(?:Jan|...)[a-z]*\s\d{4}\b at offset i, with dd digits there
\* and a month word of mw characters after them
DayMonthYear(ln, i, dd, mw) ==
    IF /\ dd \in {1, 2}
       /\ CharAt(ln, i + dd) \in WhiteSpace
       /\ mw > 0
       /\ CharAt(ln, i + dd + 1 + mw) \in WhiteSpace
       /\ Year4(ln, i + dd + mw + 2)
    THEN dd + mw + 6 ELSE 0

\* v3: (?:Jan|...)[a-z]*\s\d{1,2},?\s\d{4}\b at offset i, with a month word
\* of mw characters there, dd digits after it and cm commas (0 or 1)
MonthDayYear(ln, i, mw, dd, cm) ==
    IF /\ mw > 0
       /\ CharAt(ln, i + mw) \in WhiteSpace
       /\ dd \in {1, 2}
       /\ CharAt(ln, i + mw + 1 + dd + cm) \in WhiteSpace
       /\ Year4(ln, i + mw + dd + cm + 2)
    THEN mw + dd + cm + 6 ELSE 0

MonthDay(ln, i, mw, dd) ==
    MonthDayYear(ln, i, mw, dd, IF CharAt(ln, i + mw + 1 + dd) = "," THEN 1 ELSE 0)

MonthFirst(ln, i, mw) == MonthDay(ln, i, mw, DigitRunAt(ln, i + mw + 1))

DayFirst(ln, i, dd) == DayMonthYear(ln, i, dd, MonthWordAt(ln, i + dd + 1))

\* v3: the length of the match of dateFormats[n] that starts at offset i, or 0
MatchLen(ln, n, i) ==
    IF ~WordBoundary(ln, i) THEN 0
    ELSE IF n \in {1, 2, 3, 6}
    THEN IF /\ \A k \in 1..Len(dateShapes[n]) :
                  InClass(CharAt(ln, i + k - 1), dateShapes[n][k])
            /\ WordBoundary(ln, i + Len(dateShapes[n]))
         THEN Len(dateShapes[n]) ELSE 0
    ELSE IF n = 4 THEN DayFirst(ln, i, DigitRunAt(ln, i))
    ELSE MonthFirst(ln, i, MonthWordAt(ln, i))

\* v3: Array.from(line.matchAll(new RegExp(format, 'g'))) from offset p
RECURSIVE matchAll(_, _, _)
matchAt(ln, n, p, len) ==
    IF len > 0 THEN <<[start |-> p, end |-> p + len]>> \o matchAll(ln, n, p + len)
    ELSE matchAll(ln, n, p + 1)

matchAll(ln, n, p) ==
    IF p >= Len(ln) THEN <<>> ELSE matchAt(ln, n, p, MatchLen(ln, n, p))

\* v3: the cursor is strictly inside the date (ch > dateStart && ch < dateEnd)
InMatch_v3(ch, span) == ch > span.start /\ ch < span.end

\* v3: the matches in the order the two for loops visit them
allMatches(ln) ==
    matchAll(ln, 1, 0) \o matchAll(ln, 2, 0) \o matchAll(ln, 3, 0)
    \o matchAll(ln, 4, 0) \o matchAll(ln, 5, 0) \o matchAll(ln, 6, 0)

\* the bounds of the date alone, asterisks next to it left out
WithoutAsterisks(ln, dateStart, dateEnd) == [start |-> dateStart, end |-> dateEnd]

\* v3: start and end moved over an asterisk next to the date
WithAsterisks(ln, dateStart, dateEnd) ==
    LET hasStartAsterisk == dateStart > 0 /\ CharAt(ln, dateStart - 1) = "*"
        hasEndAsterisk   == dateEnd < Len(ln) /\ CharAt(ln, dateEnd) = "*"
    IN  [start |-> IF hasStartAsterisk THEN dateStart - 1 ELSE dateStart,
         end   |-> IF hasEndAsterisk THEN dateEnd + 1 ELSE dateEnd]

\* v3: { foundDate: line.substring(start, end), start, end }
Return_v3(ln, r) == Found(Substring(ln, r.start, r.end), r.start, r.end)

\* v3: the value returned for the k-th match, or for none (k = 0)
Pick_v3(ln, spans, k) ==
    IF k = 0 THEN NotFound
    ELSE Return_v3(ln, WithAsterisks(ln, spans[k].start, spans[k].end))

\* v3: the loops over the matches
Locate_v3(ln, ch, spans) ==
    Pick_v3(ln, spans, FirstIndex({k \in DOMAIN spans : InMatch_v3(ch, spans[k])}))

\* v3: DateSelectorPlugin.findDateAtPosition
findDateAtPosition_v3(ln, ch) == Locate_v3(ln, ch, allMatches(ln))

----------------------------------------------------------------------------
(* The '@' suggester: DateSuggester                                        *)

\* the value of an absent string (null); no text equals it
Null == <<"null">>

NoTrigger == [active |-> FALSE, start |-> -1, end |-> -1, query |-> <<>>]

TriggerInfo(s, e, q) == [active |-> TRUE, start |-> s, end |-> e, query |-> q]

\* v1: DateSuggester.onTrigger
onTrigger_v1(ln, pos) ==
    LET beforeCursor == Substring(ln, 0, pos)
        lastAtPos    == LastIndexOf(beforeCursor, "@")
    IN  IF CharAt(ln, pos - 1) = "@" THEN TriggerInfo(pos - 1, pos, <<>>)
        ELSE IF lastAtPos >= 0
             THEN TriggerInfo(lastAtPos, pos, From(beforeCursor, lastAtPos + 1))
             ELSE NoTrigger

\* v2: the formats of the strict parse in onTrigger
triggerFormats ==
    <<M_D_YY, MM_DD_YY, MdDdYY, MMdDDdYY,
      M_D_YYYY, MM_DD_YYYY, MdDdYYYY, MMdDDdYYYY,
      YYYYdMMdDD,
      MMM_D_YY, MMM_D_YYYY,
      MMMM_D_YY, MMMM_D_YYYY>>

\* v2: the format of the query that onTrigger hands on, '*MM/DD/YY*'
queryFormat == <<"*">> \o MM_DD_YY \o <<"*">>

\* a test that finds no completed date in any text
neverCompleted(s) == FALSE

\* v2: completedDateRegex, /^\*(\d{1,2}\/\d{1,2}\/\d{2})\*/, tests s
completedDateRegex(s) ==
    LET a == DigitRun(From(s, 1))
        b == DigitRun(From(s, a + 2))
        c == DigitRun(From(s, a + b + 3))
    IN  /\ CharAt(s, 0) = "*"
        /\ a \in {1, 2}
        /\ CharAt(s, a + 1) = "/"
        /\ b \in {1, 2}
        /\ CharAt(s, a + b + 2) = "/"
        /\ c = 2
        /\ CharAt(s, a + b + 5) = "*"

\* v2: query.match(/^(\d{1,2})[\/-](\d{1,2})$/): the two groups, or <<>>
partialDateMatch(q) ==
    LET a == DigitRun(q)
        b == DigitRun(From(q, a + 1))
    IN  IF /\ a \in {1, 2}
           /\ CharAt(q, a) \in {"/", "-"}
           /\ b \in {1, 2}
           /\ Len(q) = a + 1 + b
        THEN <<Substring(q, 0, a), Substring(q, a + 1, a + 1 + b)>>
        ELSE <<>>

\* the text as it is, not padded
notPadded(s) == s

\* String.prototype.padStart(2, '0')
padStart2(s) == IF Len(s) < 2 THEN <<"0">> \o s ELSE s

\* v2: the query onTrigger hands on for the text typed after '@'
finalQuery(query, now) ==
    LET strictParsedDate == ParseStrict(query, triggerFormats, now)
        pm == partialDateMatch(query)
    IN  IF strictParsedDate.valid THEN Format(strictParsedDate, queryFormat)
        ELSE IF pm # <<>>
        THEN LET fullDateStr == padStart2(pm[1]) \o <<"/">> \o padStart2(pm[2])
                                \o <<"/">> \o Pad4(now.y)
                 parsed == ParseFormat(fullDateStr, MM_DD_YYYY, TRUE, now)
             IN  IF parsed.valid THEN Format(parsed, queryFormat) ELSE query
        ELSE query

onTrigger_firstAt(ln, pos, now) ==
    LET sub            == Substring(ln, 0, pos)
        triggerCharPos == IndexOf(sub, "@")
    IN  IF triggerCharPos = -1 THEN NoTrigger
        ELSE TriggerInfo(triggerCharPos, pos, From(sub, triggerCharPos + 1))

\* v2: DateSuggester.onTrigger
onTrigger_v2(ln, pos, now) ==
    LET sub            == Substring(ln, 0, pos)
        triggerCharPos == LastIndexOf(sub, "@")
        query          == From(sub, triggerCharPos + 1)
    IN  IF triggerCharPos = -1 THEN NoTrigger
        ELSE IF Len(sub) > triggerCharPos + 1 /\ CharAt(sub, triggerCharPos + 1) = " "
        THEN NoTrigger
        ELSE IF completedDateRegex(Trim(query)) THEN NoTrigger
        ELSE TriggerInfo(triggerCharPos, pos, finalQuery(query, now))

\* v3: DateSuggester.onTrigger
onTrigger_v3(ln, pos) ==
    IF pos > 0 /\ CharAt(ln, pos - 1) = "@"
    THEN TriggerInfo(pos - 1, pos, <<>>)
    ELSE NoTrigger

\* v4: DateSuggester.onTrigger: currentLine.endsWith('@')
onTrigger_v4(ln, pos) ==
    IF pos > 0 /\ CharAt(ln, pos - 1) = "@"
    THEN TriggerInfo(pos - 1, pos, <<>>)
    ELSE NoTrigger

onTrigger(v, ln, pos, now) ==
    CASE v = "v1" -> onTrigger_v1(ln, pos)
      [] v = "v2" -> onTrigger_v2(ln, pos, now)
      [] v = "v3" -> onTrigger_v3(ln, pos)
      [] v = "v4" -> onTrigger_v4(ln, pos)

\* /^\*.*\*$/.test(s)
isWrapped(s) == Len(s) >= 2 /\ s[1] = "*" /\ s[Len(s)] = "*"

\* v2: add asterisks if the text does not already have them
wrap_v2(s) == IF isWrapped(s) THEN s ELSE <<"*">> \o s \o <<"*">>

\* v3: `*${newDate}*`
wrap_v3(s) == <<"*">> \o s \o <<"*">>

\* moment().add(n, 'day') for n in {-1, 1}
addDay(dt, n) ==
    IF n = 1
    THEN IF dt.d < daysInMonth(dt.y, dt.m) THEN Moment(dt.y, dt.m, dt.d + 1)
         ELSE IF dt.m < 12 THEN Moment(dt.y, dt.m + 1, 1)
         ELSE Moment(dt.y + 1, 1, 1)
    ELSE IF dt.d > 1 THEN Moment(dt.y, dt.m, dt.d - 1)
         ELSE IF dt.m > 1 THEN Moment(dt.y, dt.m - 1, daysInMonth(dt.y, dt.m - 1))
         ELSE Moment(dt.y - 1, 12, 31)

Suggestion(label, isDate, dateValue) ==
    [label |-> label, isDate |-> isDate, dateValue |-> dateValue]

PickADate == Suggestion("Pick a date...", FALSE, <<>>)

\* v1: DateSuggester.getSuggestions
getSuggestions_v1(query) == <<PickADate>>

\* v4: DateSuggester.getSuggestions
getSuggestions_v4(query) == <<PickADate>>

\* suggestions without the last one, 'Pick a date...'
getSuggestions_dated(query, fmt, now) ==
    (IF query # <<>> /\ query[1] = "*" /\ query[Len(query)] = "*"
     THEN <<Suggestion("Insert date", TRUE, query)>> ELSE <<>>)
    \o (IF query = <<>>
        THEN <<Suggestion("Today", TRUE, <<"*">> \o Format(now, fmt) \o <<"*">>)>>
        ELSE <<>>)

\* v2: DateSuggester.getSuggestions
getSuggestions_v2(query, fmt, now) ==
    LET startsAndEnds == query # <<>> /\ query[1] = "*" /\ query[Len(query)] = "*"
    IN  (IF startsAndEnds THEN <<Suggestion("Insert date", TRUE, query)>> ELSE <<>>)
        \o (IF Trim(query) = <<>>
            THEN <<Suggestion("Today", TRUE, wrap_v2(Format(now, fmt)))>> ELSE <<>>)
        \o <<PickADate>>

\* String.prototype.includes
Includes(s, sub) ==
    \E i \in 0..(Len(s) - Len(sub)) : Substring(s, i, i + Len(sub)) = sub

\* v3: the display texts of allSuggestions, lower case
displays_v3 ==
    <<<<"t", "o", "d", "a", "y">>,
      <<"t", "o", "m", "o", "r", "r", "o", "w">>,
      <<"y", "e", "s", "t", "e", "r", "d", "a", "y">>,
      <<"p", "i", "c", "k", " ", "a", " ", "d", "a", "t", "e", ".", ".", ".">>>>

\* v3: allSuggestions ('Pick a date...' has label PICKER and no value)
allSuggestions_v3(fmt, now) ==
    <<Suggestion("Today", TRUE, Format(now, fmt)),
      Suggestion("Tomorrow", TRUE, Format(addDay(now, 1), fmt)),
      Suggestion("Yesterday", TRUE, Format(addDay(now, -1), fmt)),
      PickADate>>

\* Array.prototype.filter: the elements of seq at the indices in keep, in order
RECURSIVE Filter(_, _, _)
Filter(seq, keep, k) ==
    IF k > Len(seq) THEN <<>>
    ELSE (IF k \in keep THEN <<seq[k]>> ELSE <<>>) \o Filter(seq, keep, k + 1)

\* v3: DateSuggester.getSuggestions: the suggestions whose display includes
\* the query, both in lower case
getSuggestions_v3(query, fmt, now) ==
    Filter(allSuggestions_v3(fmt, now),
           {k \in 1..4 : Includes(displays_v3[k], LowerStr(query))}, 1)

getSuggestions(v, ctx, fmt, now) ==
    IF ~ctx.active THEN <<>>
    ELSE CASE v = "v1" -> getSuggestions_v1(ctx.query)
           [] v = "v2" -> getSuggestions_v2(ctx.query, fmt, now)
           [] v = "v3" -> getSuggestions_v3(ctx.query, fmt, now)
           [] v = "v4" -> getSuggestions_v4(ctx.query)

----------------------------------------------------------------------------
(* The date modal: DateSelectorModal                                       *)

ISO == YYYYdMMdDD

NoModal == [open |-> FALSE, current |-> <<>>, selected |-> <<>>, replaceStart |-> -1,
            replaceEnd |-> -1, source |-> "none"]

\* v2: DateSelectorModal.constructor: selectedDateYYYYMMDD
selectedDate_v2(initialDateYYYYMMDD, now) ==
    IF initialDateYYYYMMDD # Null /\ ParseFormat(initialDateYYYYMMDD, ISO, TRUE, now).valid
    THEN initialDateYYYYMMDD
    ELSE Format(now, ISO)

\* v3: the formats of the strict parse in DateSelectorModal.constructor
modalFormats ==
    <<YYYYdMMdDD, MMdDDdYYYY, MM_DD_YYYY, DD_MM_YYYY, DDpMMpYYYY,
      MMM_DD_YYYY, MMM_DDc_YYYY, D_MMM_YYYY, MMdDDdYY, MM_DD_YY>>

\* currentDateString.replace(/^\*|\*$/g, '')
stripAsterisks(s) ==
    LET a == IF s # <<>> /\ s[1] = "*" THEN Tail(s) ELSE s
    IN  IF a # <<>> /\ a[Len(a)] = "*" THEN SubSeq(a, 1, Len(a) - 1) ELSE a

\* v3: DateSelectorModal.constructor: selectedDate
selectedDate_v3(currentDateString, now) ==
    LET dateStr == IF currentDateString = Null THEN <<>>
                   ELSE stripAsterisks(currentDateString)
        parsedDate == ParseStrict(dateStr, modalFormats, now)
    IN  IF dateStr # <<>> /\ parsedDate.valid
        THEN Format(parsedDate, ISO)
        ELSE Format(now, ISO)

\* v4: DateSelectorModal.constructor: moment(currentDateString) formatted
\* 'YYYY-MM-DD'; moment(null) is the invalid moment and nothing is thrown.
\* A string is parsed as an ISO 8601 date.
selectedDate_v4(currentDateString, now) ==
    IF currentDateString = Null THEN InvalidDateText
    ELSE Format(ParseFormat(currentDateString, ISO, TRUE, now), ISO)

\* openDateModal: new DateSelectorModal(...).open()
openDateModal(v, current, replaceStart, replaceEnd, source, now) ==
    [open |-> TRUE,
     current |-> current,
     selected |-> CASE v = "v2" -> selectedDate_v2(current, now)
                    [] v = "v4" -> selectedDate_v4(current, now)
                    [] OTHER    -> selectedDate_v3(current, now),
     replaceStart |-> replaceStart,
     replaceEnd |-> replaceEnd,
     source |-> source]

\* v2: what handleClickEvent hands to the modal for the located text:
\* moment(foundDate, 'MM/DD/YY').format('YYYY-MM-DD')
initialDate_v2(foundDate, now) == Format(ParseFormat(foundDate, MM_DD_YY, FALSE, now), ISO)

\* v2: the text the modal's onSubmit writes for the confirmed date
submitText_v2(newDateYYYYMMDD, fmt, now) ==
    wrap_v2(Format(ParseFormat(newDateYYYYMMDD, ISO, FALSE, now), fmt)) \o <<" ">>

\* v3: the text the modal's onSubmit writes: the Confirm button formats the
\* date with the output format and openDateModal's callback adds asterisks
submitText_v3(selectedDate, fmt, now) ==
    wrap_v3(Format(ParseFormat(selectedDate, ISO, TRUE, now), fmt))

\* v4: the text the modal's onSubmit writes: the Confirm button formats
\* moment(selectedDate) as 'YYYY-MM-DD' and openDateModal's callback writes it
submitText_v4(selectedDate, now) ==
    Format(ParseFormat(selectedDate, ISO, TRUE, now), ISO)

submitText(v, selected, fmt, now) ==
    CASE v = "v2" -> submitText_v2(selected, fmt, now)
      [] v = "v4" -> submitText_v4(selected, now)
      [] OTHER    -> submitText_v3(selected, fmt, now)

\* a Confirm button that submits whatever is selected
confirmsAnything(v, selected, now) == TRUE

\* the test of the Confirm button's onClick before it closes the modal and
\* calls onSubmit: v2 wants a strictly valid 'YYYY-MM-DD' date, the others
\* a selected date that is not empty
confirmable(v, selected, now) ==
    IF v = "v2"
    THEN selected # <<>> /\ ParseFormat(selected, ISO, TRUE, now).valid
    ELSE selected # <<>>

----------------------------------------------------------------------------
(* v2: the custom calendar of the modal (useCustomCalendar)                *)

\* date.day(): the day of the week, 0 for Sunday
dayOfWeek(dt) ==
    LET t == <<0, 3, 2, 5, 0, 3, 5, 1, 4, 6, 2, 4>>
        y == IF dt.m < 3 THEN dt.y - 1 ELSE dt.y
    IN  (y + (y \div 4) - (y \div 100) + (y \div 400) + t[dt.m] + dt.d) % 7

\* date.clone().add(n, 'days'), n negative to subtract
RECURSIVE addDays(_, _)
addDays(dt, n) ==
    IF n >= 0
    THEN IF dt.d + n <= daysInMonth(dt.y, dt.m) THEN Moment(dt.y, dt.m, dt.d + n)
         ELSE addDays(IF dt.m < 12 THEN Moment(dt.y, dt.m + 1, 1)
                      ELSE Moment(dt.y + 1, 1, 1),
                      n - (daysInMonth(dt.y, dt.m) - dt.d + 1))
    ELSE IF dt.d + n >= 1 THEN Moment(dt.y, dt.m, dt.d + n)
         ELSE addDays(IF dt.m > 1
                      THEN Moment(dt.y, dt.m - 1, daysInMonth(dt.y, dt.m - 1))
                      ELSE Moment(dt.y - 1, 12, 31),
                      n + dt.d)

\* currentMonth.clone().add(n, 'month') for n = 1 or -1, as year and month
addMonth(mo, n) ==
    IF n = 1 THEN (IF mo.m = 12 THEN [y |-> mo.y + 1, m |-> 1] ELSE [y |-> mo.y, m |-> mo.m + 1])
    ELSE (IF mo.m = 1 THEN [y |-> mo.y - 1, m |-> 12] ELSE [y |-> mo.y, m |-> mo.m - 1])

\* the year and month of a date (what isSame(..., 'month') compares)
monthOf(dt) == [y |-> dt.y, m |-> dt.m]

\* gridStart: startOfMonth.clone().subtract(startDay, 'days')
gridStart(mo) == addDays(Moment(mo.y, mo.m, 1), 0 - dayOfWeek(Moment(mo.y, mo.m, 1)))

\* the date of the button at place i (0..41) of the grid drawn for month mo
gridDate(mo, i) == addDays(gridStart(mo), i)

\* no custom calendar is shown
NoCalendar ==
    [shown |-> FALSE, currentMonth |-> [y |-> 0, m |-> 0], focusedDate |-> InvalidMoment,
     drawnMonth |-> [y |-> 0, m |-> 0], drawnSelected |-> <<>>, keys |-> 0,
     key |-> "none"]

\* renderCalendar(): the grid of currentMonth is drawn, the button of the
\* date that is selected now given the class 'calendar-date-selected'
renderCalendar(cal, selected) ==
    [cal EXCEPT !.drawnMonth = cal.currentMonth, !.drawnSelected = selected]

\* isValid() ? the parsed date : moment()
validOrNow(dt, now) == IF dt.valid THEN dt ELSE now

\* onOpen with useCustomCalendar: currentMonth and focusedDate are the
\* selected date, then renderCalendar()
onOpen(v, s, selected, now) ==
    IF v = "v2" /\ s.useCustomCalendar
    THEN [shown |-> TRUE,
          currentMonth |-> monthOf(validOrNow(ParseFormat(selected, ISO, TRUE, now), now)),
          focusedDate |-> validOrNow(ParseFormat(selected, ISO, TRUE, now), now),
          drawnMonth |-> monthOf(validOrNow(ParseFormat(selected, ISO, TRUE, now), now)),
          drawnSelected |-> selected,
          keys |-> 0,
          key |-> "none"]
    ELSE NoCalendar

\* handleKeyDown: the days an arrow key moves the focused date by
arrowDays_week(key) == IF key \in {"ArrowLeft", "ArrowUp"} THEN -7 ELSE 7

arrowDays(key) ==
    CASE key = "ArrowLeft"  -> -1
      [] key = "ArrowRight" -> 1
      [] key = "ArrowUp"    -> -7
      [] key = "ArrowDown"  -> 7

\* the keys handleKeyDown moves the focused date for
ArrowKeys == {"ArrowLeft", "ArrowRight", "ArrowUp", "ArrowDown"}

\* the calendar of modal m when it has just been opened
openedCalendar(v, s, m, now) ==
    IF m.open THEN onOpen(v, s, m.selected, now) ELSE NoCalendar

----------------------------------------------------------------------------
(* The editor                                                              *)

\* editor.replaceRange(text, from, to) on the one line of the document
replaceRange(ln, text, from, to) == Substring(ln, 0, from) \o text \o From(ln, to)

\* where the editor leaves a cursor at pos after replaceRange (no setCursor)
mapPos(pos, from, to, insLen) ==
    IF pos <= from THEN pos
    ELSE IF pos >= to THEN pos - (to - from) + insLen
    ELSE from

NoEdit == [by |-> "none", text |-> <<>>, from |-> -1, to |-> -1, before |-> <<>>]

Edit(by, text, from, to, before) ==
    [by |-> by, text |-> text, from |-> from, to |-> to, before |-> before]

NothingLocated == [ch |-> -1, res |-> NotFound]


\* the formats the settings tab offers
settingsFormats(v) ==
    IF v = "v3"
    THEN {MM_DD_YYYY, YYYYdMMdDD, DD_MM_YYYY, MM_DD_YY, MMM_DDc_YYYY, D_MMMM_YYYY}
    ELSE {MM_DD_YY, MMdDDdYY, YYYYdMMdDD, DD_MM_YYYY, MM_DD_YYYY,
          MMM_Dc_YYYY, MMMM_Dc_YYYY}

\* DEFAULT_SETTINGS
DEFAULT_SETTINGS(v) ==
    [dateFormat        |-> IF v = "v3" THEN MM_DD_YYYY ELSE MM_DD_YY,
     enableClickDates  |-> TRUE,
     enableAtTrigger   |-> TRUE,
     useCustomCalendar |-> FALSE]

\* the settings with one of the formats the settings tab offers chosen
formatSettings(v) ==
    {[DEFAULT_SETTINGS(v) EXCEPT !.dateFormat = f] : f \in settingsFormats(v)}

----------------------------------------------------------------------------
(* The plugin in its host                                                  *)

\* an onload that registers the click listener whatever the settings say
onload_listening(v, s) ==
    [loaded        |-> TRUE,
     clickListener |-> TRUE,
     dateSuggester |-> IF v = "v3" /\ s.enableAtTrigger THEN 1 ELSE 0,
     suggests      |-> IF v \in {"v2", "v3"} /\ ~s.enableAtTrigger THEN <<>> ELSE <<1>>,
     discarded     |-> {},
     created       |-> IF v \in {"v2", "v3"} /\ ~s.enableAtTrigger THEN 0 ELSE 1,
     lastIndex     |-> 0]

\* onload: with settings s loaded, the click listener is registered (in v2
\* only if enableClickDates) and a DateSuggester is made and registered (in
\* v2 and v3 only if the '@' trigger is enabled); v3 keeps it in
\* this.dateSuggester.  DateSuggester objects are numbered as they are made;
\* 0 is null.
onload(v, s) ==
    [loaded        |-> TRUE,
     clickListener |-> v # "v2" \/ s.enableClickDates,
     dateSuggester |-> IF v = "v3" /\ s.enableAtTrigger THEN 1 ELSE 0,
     suggests      |-> IF v \in {"v2", "v3"} /\ ~s.enableAtTrigger THEN <<>> ELSE <<1>>,
     discarded     |-> {},
     created       |-> IF v \in {"v2", "v3"} /\ ~s.enableAtTrigger THEN 0 ELSE 1,
     lastIndex     |-> 0]

\* v3 setupAtTrigger: a DateSuggester is made, kept in this.dateSuggester and
\* registered with the workspace
setupAtTrigger(pl) ==
    [pl EXCEPT !.created = @ + 1,
               !.dateSuggester = pl.created + 1,
               !.suggests = Append(@, pl.created + 1)]

\* suggests.splice(indexOf(x), 1) when indexOf(x) > -1
spliceOut(suggests, x) ==
    IF \E i \in 1..Len(suggests) : suggests[i] = x
    THEN LET index == CHOOSE i \in 1..Len(suggests) :
                          /\ suggests[i] = x
                          /\ \A j \in 1..(i - 1) : suggests[j] # x
         IN  SubSeq(suggests, 1, index - 1) \o SubSeq(suggests, index + 1, Len(suggests))
    ELSE suggests

cleanup_keepsRegistered(pl) ==
    IF pl.dateSuggester # 0
    THEN [pl EXCEPT !.discarded = @ \cup {pl.dateSuggester}, !.dateSuggester = 0]
    ELSE pl

\* v3 cleanupAtTrigger: the DateSuggester held is taken out of the
\* workspace's list, closed and forgotten
cleanupAtTrigger(pl) ==
    IF pl.dateSuggester # 0
    THEN [pl EXCEPT !.suggests = spliceOut(@, pl.dateSuggester),
                    !.discarded = @ \cup {pl.dateSuggester},
                    !.dateSuggester = 0]
    ELSE pl

\* v3 updateAtTriggerState with settings s
updateAtTriggerState(pl, s) ==
    IF s.enableAtTrigger THEN setupAtTrigger(cleanupAtTrigger(pl))
    ELSE cleanupAtTrigger(pl)

\* v3 onunload, after which the host removes the listeners registered with
\* registerDomEvent
onunload(pl) ==
    [cleanupAtTrigger(pl) EXCEPT !.loaded = FALSE, !.clickListener = FALSE]

----------------------------------------------------------------------------
(* Bounds of the model                                                     *)

\* how many times the document is edited, by the user's typing or by the
\* plugin's replaceRange
MaxEdits == 3

----------------------------------------------------------------------------
(* Handlers                                                                *)

\* v2: the text after the last '@' that onTrigger parses
rawQuery(ln, pos) ==
    LET sub == Substring(ln, 0, pos)
    IN  From(sub, LastIndexOf(sub, "@") + 1)

\* The user types a piece of text at the cursor; the host then asks the
\* suggester: onTrigger, and getSuggestions for the context it returns.
TypeText(piece) ==
    /\ ~modal.open
    /\ edits < MaxEdits
    /\ \E ln \in {replaceRange(line, piece, cursor, cursor)} :
       \E ctx \in {IF plugin.suggests = <<>> THEN NoTrigger
                   ELSE onTrigger(variant, ln, cursor + Len(piece), today)} :
           /\ line' = ln
           /\ cursor' = cursor + Len(piece)
           /\ anchor' = cursor + Len(piece)
           /\ context' = ctx
           /\ suggestions' = getSuggestions(variant, ctx, settings.dateFormat, today)
           /\ lastParsed' = IF variant = "v2" /\ ctx.active
                            THEN ParseStrict(rawQuery(ln, cursor + Len(piece)),
                                             triggerFormats, today)
                            ELSE InvalidMoment
    /\ edits' = edits + 1
    /\ located' = NothingLocated
    /\ lastEdit' = NoEdit
    /\ UNCHANGED <<variant, settings, plugin, today, modal, calendar>>

\* handleClickEvent: a click in the editor at offset ch of the line
Click(ch) ==
    /\ ~modal.open
    /\ variant \in {"v2", "v3"}
    /\ ch \in 0..Len(line)
    /\ \E res \in {IF ~plugin.clickListener THEN NotFound
                   ELSE IF variant = "v2" THEN findDateAtPosition_v2(line, ch, today)
                   ELSE IF line = <<>> THEN NotFound
                   ELSE findDateAtPosition_v3(line, ch)} :
           /\ located' = IF plugin.clickListener THEN [ch |-> ch, res |-> res]
                         ELSE NothingLocated
           /\ plugin' = IF plugin.clickListener /\ variant = "v2"
                        THEN [plugin EXCEPT !.lastIndex = IF res.found THEN res.end ELSE 0]
                        ELSE plugin
           /\ modal' = IF ~res.found THEN modal
                       ELSE IF variant = "v2"
                       THEN openDateModal("v2", initialDate_v2(res.foundDate, today),
                                          res.start, res.end, "click", today)
                       ELSE openDateModal("v3", res.foundDate,
                                          res.start, res.end, "click", today)
           /\ lastParsed' = IF ~res.found THEN InvalidMoment
                            ELSE IF variant = "v2"
                            THEN ParseFormat(res.foundDate, MM_DD_YY, FALSE, today)
                            ELSE ParseStrict(stripAsterisks(res.foundDate),
                                             modalFormats, today)
    /\ calendar' = openedCalendar(variant, settings, modal', today)
    /\ cursor' = ch
    /\ anchor' = ch
    /\ context' = NoTrigger
    /\ suggestions' = <<>>
    /\ lastEdit' = NoEdit
    /\ UNCHANGED <<variant, settings, today, line, edits>>

\* the modal's date input fires 'change': sel is its value, '' when cleared
ModalPick(sel) ==
    /\ modal.open
    /\ ~calendar.shown
    /\ sel # modal.selected
    /\ modal' = [modal EXCEPT !.selected = sel]
    /\ located' = NothingLocated
    /\ lastParsed' = InvalidMoment
    /\ lastEdit' = NoEdit
    /\ UNCHANGED <<variant, settings, plugin, today, line, cursor, anchor, calendar,
                   context, suggestions, edits>>

\* the modal's 'Confirm Date' button
ModalConfirm ==
    /\ modal.open
    /\ IF ~confirmable(variant, modal.selected, today)
       THEN UNCHANGED <<line, cursor, anchor, modal, calendar, lastEdit, edits>>
       ELSE /\ edits < MaxEdits
            /\ \E text \in {submitText(variant, modal.selected, settings.dateFormat, today)} :
                   /\ line' = replaceRange(line, text, modal.replaceStart,
                                           modal.replaceEnd)
                   /\ cursor' = IF variant = "v3"
                                THEN modal.replaceStart + Len(text)
                                ELSE mapPos(cursor, modal.replaceStart,
                                            modal.replaceEnd, Len(text))
                   /\ anchor' = IF variant = "v3"
                                THEN modal.replaceStart + Len(text)
                                ELSE mapPos(anchor, modal.replaceStart,
                                            modal.replaceEnd, Len(text))
                   /\ lastEdit' = Edit(modal.source, text, modal.replaceStart,
                                       modal.replaceEnd, line)
            /\ modal' = NoModal
            /\ calendar' = NoCalendar
            /\ edits' = edits + 1
    /\ located' = NothingLocated
    /\ lastParsed' = InvalidMoment
    /\ UNCHANGED <<variant, settings, plugin, today, context, suggestions>>

\* the modal is dismissed (Escape, or a click outside it)
ModalClose ==
    /\ modal.open
    /\ modal' = NoModal
    /\ calendar' = NoCalendar
    /\ located' = NothingLocated
    /\ lastParsed' = InvalidMoment
    /\ lastEdit' = NoEdit
    /\ UNCHANGED <<variant, settings, plugin, today, line, cursor, anchor, context,
                   suggestions, edits>>

\* DateSuggester.selectSuggestion for the k-th suggestion shown
SelectSuggestion(k) ==
    /\ ~modal.open
    /\ variant \in {"v2", "v3", "v4"}
    /\ context.active
    /\ k \in 1..Len(suggestions)
    /\ LET s    == suggestions[k]
           text == IF variant = "v2" THEN s.dateValue \o <<" ">>
                   ELSE wrap_v3(s.dateValue)
       IN  IF s.isDate /\ s.dateValue # <<>>
           THEN /\ edits < MaxEdits
                /\ line' = replaceRange(line, text, context.start, context.end)
                /\ cursor' = context.start + Len(text)
                /\ anchor' = context.start + Len(text)
                /\ lastEdit' = Edit("suggestion", text, context.start, context.end, line)
                /\ edits' = edits + 1
                /\ UNCHANGED <<modal, calendar>>
           ELSE /\ modal' = openDateModal(variant, Null, context.start, context.end,
                                          "picker", today)
                /\ calendar' = openedCalendar(variant, settings, modal', today)
                /\ lastEdit' = NoEdit
                /\ UNCHANGED <<line, cursor, anchor, edits>>
    /\ context' = NoTrigger
    /\ suggestions' = <<>>
    /\ located' = NothingLocated
    /\ lastParsed' = InvalidMoment
    /\ UNCHANGED <<variant, settings, plugin, today>>

\* v2: the settings tab's 'Enable clicking on dates' toggle: the setting is
\* changed and saved, and the tab is drawn again ("Requires plugin reload to
\* take effect")
ToggleClickDates ==
    /\ variant = "v2"
    /\ settings' = [settings EXCEPT !.enableClickDates = ~settings.enableClickDates]
    /\ UNCHANGED <<variant, plugin, today, line, cursor, anchor, located, lastParsed,
                   modal, calendar, context, suggestions, lastEdit, edits>>

\* the plugin is disabled and enabled again, or the application restarted:
\* the listeners of the old instance are removed and onload runs with the
\* saved settings
Reload ==
    /\ plugin' = onload(variant, settings)
    /\ plugin' # plugin
    /\ context' = NoTrigger
    /\ suggestions' = <<>>
    /\ UNCHANGED <<variant, settings, today, line, cursor, anchor, located, lastParsed,
                   modal, calendar, lastEdit, edits>>

\* the user selects text with the keyboard: the selection goes from offset a
\* (its anchor) to offset h (its head, where the cursor is)
Select(a, h) ==
    /\ ~modal.open
    /\ a \in 0..Len(line)
    /\ h \in 0..Len(line)
    /\ <<a, h>> # <<anchor, cursor>>
    /\ anchor' = a
    /\ cursor' = h
    /\ context' = NoTrigger
    /\ suggestions' = <<>>
    /\ located' = NothingLocated
    /\ lastParsed' = InvalidMoment
    /\ lastEdit' = NoEdit
    /\ UNCHANGED <<variant, settings, plugin, today, line, modal, calendar, edits>>

\* editor.getSelection(): the text between the anchor and the head
getSelection(ln, a, h) == Substring(ln, a, h)

\* v1, v3: the editorCallback of 'Insert or Update Date (Command)':
\* openDateModal(editor, selectedText || null, getCursor(), getCursor())
InsertUpdateCommand ==
    /\ ~modal.open
    /\ variant = "v3"
    /\ plugin.loaded
    /\ LET selectedText == getSelection(line, anchor, cursor)
       IN  modal' = openDateModal(variant,
                                  IF selectedText = <<>> THEN Null ELSE selectedText,
                                  cursor, cursor, "command", today)
    /\ calendar' = openedCalendar(variant, settings, modal', today)
    /\ lastParsed' = IF modal'.current = Null THEN InvalidMoment
                     ELSE ParseStrict(stripAsterisks(modal'.current), modalFormats, today)
    /\ context' = NoTrigger
    /\ suggestions' = <<>>
    /\ located' = NothingLocated
    /\ lastEdit' = NoEdit
    /\ UNCHANGED <<variant, settings, plugin, today, line, cursor, anchor, edits>>

\* how many DateSuggester objects one instance of the plugin makes
MaxSuggesters == 3

\* v3: the settings tab's 'Enable @ Symbol Trigger' toggle: the setting is
\* changed and saved, then updateAtTriggerState(); the suggestions of a
\* DateSuggester that is discarded are closed
ToggleAtTrigger ==
    /\ variant = "v3"
    /\ plugin.loaded
    /\ plugin.created < MaxSuggesters
    /\ settings' = [settings EXCEPT !.enableAtTrigger = ~settings.enableAtTrigger]
    /\ plugin' = updateAtTriggerState(plugin, settings')
    /\ context' = NoTrigger
    /\ suggestions' = <<>>
    /\ UNCHANGED <<variant, today, line, cursor, anchor, located, lastParsed, modal,
                   calendar, lastEdit, edits>>

\* v3: the plugin is disabled: onunload
Unload ==
    /\ variant = "v3"
    /\ plugin.loaded
    /\ plugin' = onunload(plugin)
    /\ context' = NoTrigger
    /\ suggestions' = <<>>
    /\ UNCHANGED <<variant, settings, today, line, cursor, anchor, located, lastParsed,
                   modal, calendar, lastEdit, edits>>

\* how many clicks and keys one calendar takes
MaxKeys == 3

\* the places of the grid's buttons that are clicked: the first (a day of the
\* month before unless the month starts on a Sunday), one inside the month,
\* and the last (a day of the month after)
GridPlaces == {0, 17, 41}

\* v2, custom calendar: prevBtn.onclick (n = -1) and nextBtn.onclick (n = 1)
CalendarMonth(n) ==
    /\ calendar.shown
    /\ calendar.keys < MaxKeys
    /\ calendar' = renderCalendar(
                       [calendar EXCEPT !.currentMonth = addMonth(@, n),
                                        !.keys = @ + 1,
                                        !.key = IF n = 1 THEN "next" ELSE "prev"],
                       modal.selected)
    /\ UNCHANGED <<variant, settings, plugin, today, line, cursor, anchor, located,
                   lastParsed, modal, context, suggestions, lastEdit, edits>>

\* v2, custom calendar: dateBtn.onclick of the button at place i of the grid
\* that is drawn: renderCalendar() runs only if the button's month is not the
\* one shown, and before the selected date is assigned
CalendarDateClick(i) ==
    /\ calendar.shown
    /\ calendar.keys < MaxKeys
    /\ LET date == gridDate(calendar.drawnMonth, i)
           cal  == IF monthOf(date) # calendar.currentMonth
                   THEN renderCalendar([calendar EXCEPT !.currentMonth = monthOf(date)],
                                       modal.selected)
                   ELSE calendar
       IN  /\ calendar' = [cal EXCEPT !.focusedDate = date, !.keys = @ + 1,
                                      !.key = "click"]
           /\ modal' = [modal EXCEPT !.selected = Format(date, ISO)]
    /\ UNCHANGED <<variant, settings, plugin, today, line, cursor, anchor, located,
                   lastParsed, context, suggestions, lastEdit, edits>>

\* v2, custom calendar: handleKeyDown for an arrow key
CalendarArrow(key) ==
    /\ calendar.shown
    /\ calendar.keys < MaxKeys
    /\ LET newFocus == addDays(calendar.focusedDate, arrowDays(key))
       IN  calendar' = renderCalendar(
                           [calendar EXCEPT
                              !.currentMonth = IF monthOf(newFocus) # @
                                               THEN monthOf(newFocus) ELSE @,
                              !.focusedDate = newFocus,
                              !.keys = @ + 1,
                              !.key = key],
                           modal.selected)
    /\ UNCHANGED <<variant, settings, plugin, today, line, cursor, anchor, located,
                   lastParsed, modal, context, suggestions, lastEdit, edits>>

\* v2, custom calendar: handleKeyDown for Enter
CalendarEnter ==
    /\ calendar.shown
    /\ calendar.keys < MaxKeys
    /\ modal' = [modal EXCEPT !.selected = Format(calendar.focusedDate, ISO)]
    /\ calendar' = renderCalendar([calendar EXCEPT !.keys = @ + 1, !.key = "Enter"],
                                  modal'.selected)
    /\ UNCHANGED <<variant, settings, plugin, today, line, cursor, anchor, located,
                   lastParsed, context, suggestions, lastEdit, edits>>

----------------------------------------------------------------------------
(* The editor session: Spec                                                *)

\* the date moment() gives during the session
Todays == {Moment(2024, 2, 29)}

\* the date the user picks in the modal or types: its day and its month can
\* be taken for each other
PickDates == {Moment(2025, 2, 5)}

\* the values the modal's date input can take ('' when cleared)
PickTexts == {Format(d, ISO) : d \in PickDates} \cup {<<>>}

\* the lines the session starts from, the cursor before their text: a space
\* follows the cursor in the first and not in the second
SeedLines == {<<" ", "x">>, <<"x">>}

\* what the user types in one go: '@' to call the suggester and, while it is
\* open on the bare '@', a date in the format of the settings
TypePieces ==
    IF context.active
    THEN IF context.query = <<>> /\ cursor = context.end
         THEN {Format(d, settings.dateFormat) : d \in PickDates}
         ELSE {}
    ELSE {<<"@">>}

\* where the user clicks: on the second character after an asterisk, inside
\* the date after an opening asterisk and outside it after a closing one
ClickOffsets == {i \in 2..Len(line) : CharAt(line, i - 2) = "*"}

TypeOK ==
    /\ variant \in {"v1", "v2", "v3", "v4"}
    /\ settings.enableClickDates \in BOOLEAN
    /\ settings.enableAtTrigger \in BOOLEAN
    /\ settings.useCustomCalendar \in BOOLEAN
    /\ today \in Todays \cup {Moment(2029, 6, 15)}
    /\ cursor \in 0..Len(line)
    /\ anchor \in 0..Len(line)
    /\ plugin.clickListener \in BOOLEAN
    /\ calendar.shown => modal.open
    /\ edits \in 0..MaxEdits
    /\ modal.open \in BOOLEAN
    /\ context.active \in BOOLEAN

Init ==
    /\ variant \in {"v2", "v3"}
    /\ settings \in formatSettings(variant)
    /\ today \in Todays
    /\ line \in SeedLines
    /\ cursor = 0
    /\ located = NothingLocated
    /\ lastParsed = InvalidMoment
    /\ modal = NoModal
    /\ context = NoTrigger
    /\ suggestions = <<>>
    /\ lastEdit = NoEdit
    /\ edits = 0
    /\ plugin = onload(variant, settings)
    /\ anchor = cursor
    /\ calendar = NoCalendar

Next ==
    \/ \E piece \in TypePieces : TypeText(piece)
    \/ \E ch \in ClickOffsets : Click(ch)
    \/ \E sel \in PickTexts : ModalPick(sel)
    \/ ModalConfirm
    \/ ModalClose
    \/ \E k \in 1..4 : SelectSuggestion(k)

Spec == Init /\ [][Next]_vars

----------------------------------------------------------------------------
(* Clicks on a line of text: SpecLocate                                    *)

\* every format the two settings tabs offer
allFormats == settingsFormats("v2") \cup settingsFormats("v3")

\* the dates of the lines clicked on: the second has a two-digit year on the
\* far side of moment's pivot and a day that is no month
LocateDates == {Moment(2025, 2, 5), Moment(1968, 12, 31)}

\* the lines clicked on: each date in each format between asterisks, text
\* between asterisks that is no date, dates without asterisks or with two
\* pairs of them, two dates side by side, two dates that share their year
\* digits ('02/05/2025-03-04'), and the empty line
LocateLines ==
    {<<"x">> \o wrap_v3(Format(d, f)) \o <<" ">> : d \in LocateDates, f \in allFormats}
    \cup {wrap_v3(<<"1", "3", "/", "3", "2", "/", "2", "0", "2", "4">>),
          <<"a", " ">> \o wrap_v3(<<"0", "2", "/", "3", "0", "/", "2", "0", "2", "4">>),
          wrap_v3(<<"a", "b">>) \o wrap_v3(<<"1", "3", "-", "4", "5", "-", "6", "7">>),
          <<"x", " ">> \o Format(Moment(2025, 2, 5), MM_DD_YYYY) \o <<" ", "y">>,
          wrap_v3(wrap_v3(Format(Moment(2025, 2, 5), YYYYdMMdDD))),
          wrap_v3(Format(Moment(2025, 2, 5), MM_DD_YY))
              \o wrap_v3(Format(Moment(2025, 2, 6), MM_DD_YY)),
          Format(Moment(2025, 2, 5), MM_DD_YYYY) \o <<"-", "0", "3", "-", "0", "4">>,
          <<>>}

InitLocate ==
    /\ variant \in {"v2", "v3"}
    /\ settings = DEFAULT_SETTINGS(variant)
    /\ today \in Todays
    /\ line \in LocateLines
    /\ cursor = 0
    /\ located = NothingLocated
    /\ lastParsed = InvalidMoment
    /\ modal = NoModal
    /\ context = NoTrigger
    /\ suggestions = <<>>
    /\ lastEdit = NoEdit
    /\ edits = 0
    /\ plugin = onload(variant, settings)
    /\ anchor = cursor
    /\ calendar = NoCalendar

NextLocate ==
    \/ \E ch \in 0..Len(line) : Click(ch)
    \/ ModalClose

SpecLocate == InitLocate /\ [][NextLocate]_vars

----------------------------------------------------------------------------
(* Typing after '@': SpecTrigger                                           *)

\* the characters typed one at a time
TriggerChars == {<<"@">>, <<" ">>, <<"x">>, <<"1">>}

\* the lines typing starts from, the cursor at their end: empty, '@' with a
\* fragment of 20 characters, and '@' with a fragment of two spaces
TriggerLines ==
    {<<>>,
     <<"@">> \o [i \in 1..20 |-> "x"],
     <<"@", "a", " ", "b", " ", "c">>}

InitTrigger ==
    /\ variant \in {"v1", "v2", "v3"}
    /\ settings = DEFAULT_SETTINGS(variant)
    /\ today \in Todays
    /\ line \in TriggerLines
    /\ cursor = Len(line)
    /\ located = NothingLocated
    /\ lastParsed = InvalidMoment
    /\ modal = NoModal
    /\ context = NoTrigger
    /\ suggestions = <<>>
    /\ lastEdit = NoEdit
    /\ edits = 0
    /\ plugin = onload(variant, settings)
    /\ anchor = cursor
    /\ calendar = NoCalendar

NextTrigger == \E c \in TriggerChars : TypeText(c)

SpecTrigger == InitTrigger /\ [][NextTrigger]_vars

----------------------------------------------------------------------------
(* Fragments typed after '@': SpecQuery                                    *)

\* the dates moment() gives: one in a leap year, one in a year ending in 9
QueryTodays == {Moment(2024, 2, 29), Moment(2029, 6, 15)}

\* the fragments typed after '@': day and month alone, numeric dates, dates
\* with a month word, text between asterisks, white space and plain text
QueryFragments ==
    {<<"3", "-", "3">>,
     <<"2", "/", "2", "9">>,
     <<"2", "/", "3", "0">>,
     <<"1", "3", "/", "1">>,
     <<"0", "-", "5">>,
     <<"1", "2", "/", "3", "1">>,
     <<"1", "3", "/", "4", "0", "/", "9", "9">>,
     <<"0", "2", "/", "0", "5", "/", "2", "5">>,
     <<"2", "/", "3", "0", "/", "2", "4">>,
     <<"0", "2", "/", "0", "5", "/", "2", "0", "2", "5">>,
     <<"2", "0", "2", "5", "-", "0", "2", "-", "0", "5">>,
     <<"2", "0", "2", "5", "-", "1", "3", "-", "4", "5">>,
     <<"s", "e", "p", "t", " ", "2", " ", "2", "4">>,
     <<"s", "e", "p", " ", "2", " ", "2", "4">>,
     <<"S", "E", "P", " ", "2", " ", "2", "4">>,
     <<"s", "e", "p", "t", "e", "m", "b", "e", "r", " ", "2", " ", "2", "0", "2", "4">>,
     <<"s", "e", "p", " ", "2", " ", "9", "9">>,
     <<"d", "e", "c", " ", "5", " ", "9">>,
     <<"f", "e", "b", " ", "3", "0", " ", "2", "4">>,
     <<"*", "0", "2", "/", "0", "5", "/", "2", "5", "*", " ", "x">>,
     <<"*", "0", "2", "/", "0", "5", "/", "2", "5", "*">>,
     <<"*", "2", "0", "2", "5", "-", "0", "2", "-", "0", "5", "*", " ", "x">>,
     <<"*", "a", "b", "c", "*">>,
     <<"*">>,
     <<"\t">>,
     <<"x">>,
     <<" ", "x">>}

\* what is typed in one go: '@', and a fragment right after an '@'
QueryPieces ==
    IF cursor > 0 /\ CharAt(line, cursor - 1) = "@" THEN QueryFragments ELSE {<<"@">>}

InitQuery ==
    /\ variant \in {"v2", "v3"}
    /\ settings = DEFAULT_SETTINGS(variant)
    /\ today \in QueryTodays
    /\ line = <<>>
    /\ cursor = 0
    /\ located = NothingLocated
    /\ lastParsed = InvalidMoment
    /\ modal = NoModal
    /\ context = NoTrigger
    /\ suggestions = <<>>
    /\ lastEdit = NoEdit
    /\ edits = 0
    /\ plugin = onload(variant, settings)
    /\ anchor = cursor
    /\ calendar = NoCalendar

NextQuery == \E piece \in QueryPieces : TypeText(piece)

SpecQuery == InitQuery /\ [][NextQuery]_vars

----------------------------------------------------------------------------
(* A session with a format the settings tab does not offer: SpecLoaded     *)

\* formats that loadData() can return (data.json is a file the user or
\* another version of the plugin may have written) and the settings tab
\* does not offer: 'YYYY/MM/DD' and 'DD.MM.YY'
LoadedFormats == {<<"YYYY", "/", "MM", "/", "DD">>, <<"DD", ".", "MM", ".", "YY">>}

InitLoaded ==
    /\ variant \in {"v2", "v3"}
    /\ settings \in {[DEFAULT_SETTINGS(variant) EXCEPT !.dateFormat = f] : f \in LoadedFormats}
    /\ today \in Todays
    /\ line \in SeedLines
    /\ cursor = 0
    /\ located = NothingLocated
    /\ lastParsed = InvalidMoment
    /\ modal = NoModal
    /\ context = NoTrigger
    /\ suggestions = <<>>
    /\ lastEdit = NoEdit
    /\ edits = 0
    /\ plugin = onload(variant, settings)
    /\ anchor = cursor
    /\ calendar = NoCalendar

SpecLoaded == InitLoaded /\ [][Next]_vars

----------------------------------------------------------------------------
(* v2: clicks while 'Enable clicking on dates' is switched: SpecSettings   *)

\* the lines clicked on: a date between asterisks, alone and after text
SettingsLines ==
    {wrap_v3(Format(Moment(2025, 2, 5), MM_DD_YY)),
     <<"a", " ">> \o wrap_v3(Format(Moment(2025, 2, 5), YYYYdMMdDD)) \o <<" ", "b">>}

InitSettings ==
    /\ variant = "v2"
    /\ settings \in {[DEFAULT_SETTINGS("v2") EXCEPT !.enableClickDates = b] : b \in BOOLEAN}
    /\ today \in Todays
    /\ line \in SettingsLines
    /\ cursor = 0
    /\ located = NothingLocated
    /\ lastParsed = InvalidMoment
    /\ modal = NoModal
    /\ context = NoTrigger
    /\ suggestions = <<>>
    /\ lastEdit = NoEdit
    /\ edits = 0
    /\ plugin = onload(variant, settings)
    /\ anchor = cursor
    /\ calendar = NoCalendar

NextSettings ==
    \/ \E ch \in 0..Len(line) : Click(ch)
    \/ ModalClose
    \/ ModalConfirm
    \/ ToggleClickDates
    \/ Reload

SpecSettings == InitSettings /\ [][NextSettings]_vars

----------------------------------------------------------------------------
(* The modal in three versions of the plugin: SpecModal                    *)

\* the lines the session starts from: empty, and a date between asterisks
ModalLines == {<<>>, wrap_v3(Format(Moment(2025, 2, 5), MM_DD_YYYY)) \o <<" ">>}

InitModal ==
    /\ variant \in {"v2", "v3", "v4"}
    /\ settings = DEFAULT_SETTINGS(variant)
    /\ today \in Todays
    /\ line \in ModalLines
    /\ cursor = 0
    /\ located = NothingLocated
    /\ lastParsed = InvalidMoment
    /\ modal = NoModal
    /\ context = NoTrigger
    /\ suggestions = <<>>
    /\ lastEdit = NoEdit
    /\ edits = 0
    /\ plugin = onload(variant, settings)
    /\ anchor = cursor
    /\ calendar = NoCalendar

SpecModal == InitModal /\ [][Next]_vars

----------------------------------------------------------------------------
(* Properties of findDateAtPosition, checked under SpecLocate              *)

\* the bounds of the date text of the located match: start and end with an
\* asterisk there left out
innerStart == located.res.start + (IF CharAt(line, located.res.start) = "*" THEN 1 ELSE 0)

innerEnd == located.res.end - (IF CharAt(line, located.res.end - 1) = "*" THEN 1 ELSE 0)

\* the date text of the located match
innerText == Substring(line, innerStart, innerEnd)

\* C1, as the code has it: a match is returned in v2 only for a click offset
\* from the opening asterisk to the offset after the closing asterisk
\* (start <= ch <= end), and in v3 only for a click offset strictly inside
\* the date text.
C1_ClickWithinMatch ==
    located.res.found =>
        /\ variant = "v2" => located.res.start <= located.ch /\ located.ch <= located.res.end
        /\ variant = "v3" => innerStart < located.ch /\ located.ch < innerEnd

\* C1 as stated: a match is returned only when ch lies strictly inside the
\* date text, never on an asterisk or on an inner boundary.
C1_StrictlyInside ==
    located.res.found => innerStart < located.ch /\ located.ch < innerEnd

\* v2 returns a match for a click on the opening asterisk
C1_ClickOnAsterisk ==
    /\ located.res.found
    /\ variant = "v2"
    /\ located.ch = located.res.start
    /\ CharAt(line, located.ch) = "*"

\* every format the model knows, the catalog a date text is parsed against
catalogFormats ==
    <<MM_DD_YY, MMdDDdYY, YYYYdMMdDD, DD_MM_YYYY, MM_DD_YYYY, MMdDDdYYYY,
      DDpMMpYYYY, M_D_YY, MdDdYY, M_D_YYYY, MdDdYYYY, MMM_D_YY, MMM_D_YYYY,
      MMMM_D_YY, MMMM_D_YYYY, MMM_Dc_YYYY, MMMM_Dc_YYYY, MMM_Dc_YY, MMMM_Dc_YY,
      MMM_DD_YYYY, MMM_DDc_YYYY, D_MMM_YYYY, D_MMMM_YYYY>>

\* C2: the date text of every match returned strictly parses to a valid
\* calendar date under one of the catalog formats.
C2_MatchIsCalendarDate ==
    located.res.found => ParseStrict(innerText, catalogFormats, today).valid

\* C3, as the code has it: 0 <= start <= end <= line.length for every match;
\* in v2 foundDate is the text between the asterisks, line[start+1:end-1],
\* and in v3 it is line[start:end].
C3_BoundsAndText ==
    located.res.found =>
        /\ 0 <= located.res.start
        /\ located.res.start <= located.res.end
        /\ located.res.end <= Len(line)
        /\ variant = "v2" =>
               located.res.foundDate
                   = Substring(line, located.res.start + 1, located.res.end - 1)
        /\ variant = "v3" =>
               located.res.foundDate = Substring(line, located.res.start, located.res.end)

\* C3 as stated: the bounds are ordered within the line and foundDate is
\* exactly line[start:end].
C3_TextIsSpan ==
    located.res.found =>
        /\ 0 <= located.res.start
        /\ located.res.start <= located.res.end
        /\ located.res.end <= Len(line)
        /\ located.res.foundDate = Substring(line, located.res.start, located.res.end)

\* v2 returns a match whose span is two characters longer than foundDate
C3_SpanHasAsterisks ==
    /\ located.res.found
    /\ variant = "v2"
    /\ located.res.end - located.res.start = Len(located.res.foundDate) + 2

----------------------------------------------------------------------------
(* Properties of the editing session, checked under Spec                  *)

\* the dates the session can write: the picked ones and the suggested ones
InsertableDates ==
    PickDates \cup UNION {{t, addDay(t, 1), addDay(t, -1)} : t \in Todays}

\* the date the last edit wrote, with its asterisks: the text written less
\* the space after it
writtenDate == TrimRight(lastEdit.text)

\* the offset after the closing asterisk of the date the last edit wrote
writtenEnd == lastEdit.from + Len(writtenDate)

\* text is a date rendered in format fmt
RendersIn(text, fmt) ==
    \E p \in {ParseStrict(text, <<fmt>>, today)} : p.valid /\ Format(p, fmt) = text

\* C4: when a click locates text that is a date d in the format of the
\* settings, the date the modal opens with is d.
C4_LocateRoundTrip ==
    (modal.open /\ modal.source = "click" /\ located.res.found) =>
        \A d \in InsertableDates :
            innerText = Format(d, settings.dateFormat) => modal.selected = Format(d, ISO)

\* C5: a space is written after the date only if the character after the
\* replaced range is not a space, and the date written is never followed by
\* two spaces.
C5_SeparatorIdempotence ==
    lastEdit.by # "none" =>
        /\ lastEdit.text # writtenDate => CharAt(lastEdit.before, lastEdit.to) # " "
        /\ ~(CharAt(line, writtenEnd) = " " /\ CharAt(line, writtenEnd + 1) = " ")

\* the number of asterisks of text s
StarCount(s) == Cardinality({i \in DOMAIN s : s[i] = "*"})

\* every asterisk of text s belongs to exactly one pair of asterisks, and
\* every pair encloses a date and nothing else
WellWrapped(s) ==
    /\ StarCount(s) = 2 * Len(dateRegexMatches(s, 0))
    /\ \A k \in DOMAIN dateRegexMatches(s, 0) :
           ParseStrict(datePart(s, dateRegexMatches(s, 0)[k]), catalogFormats, today).valid

\* the last edit replaced text that starts within a pair of asterisks of the
\* line it edited
EditedWrappedDate ==
    \E k \in DOMAIN dateRegexMatches(lastEdit.before, 0) :
        /\ dateRegexMatches(lastEdit.before, 0)[k].start <= lastEdit.from
        /\ lastEdit.from < dateRegexMatches(lastEdit.before, 0)[k].end

\* C6: the date an edit writes is text without asterisks between one pair of
\* asterisks; and a click-to-edit replacement of a date between asterisks, in
\* a line where every asterisk belongs to one pair around a date, leaves such
\* a line: the date it writes has one asterisk on each side, never two.
C6_SingleWrapping ==
    /\ lastEdit.by # "none" =>
           /\ isWrapped(writtenDate)
           /\ stripAsterisks(writtenDate) # <<>>
           /\ StarCount(writtenDate) = 2
    /\ (lastEdit.by = "click" /\ WellWrapped(lastEdit.before) /\ EditedWrappedDate) =>
           WellWrapped(line)

\* a click-to-edit replacement has written a date over a located one
C6_DateReEdited ==
    /\ lastEdit.by = "click"
    /\ isWrapped(writtenDate)
    /\ WellWrapped(lastEdit.before)
    /\ EditedWrappedDate
    /\ Substring(line, lastEdit.from, writtenEnd) = writtenDate

\* C7: the date every edit writes is rendered in the format of the settings.
C7_InSelectedFormat ==
    lastEdit.by # "none" => RendersIn(stripAsterisks(writtenDate), settings.dateFormat)

\* C8: the text of a date d in the format of the settings parses to d, where
\* the plugin parses text: in v2 the text typed after '@', in v3 the text
\* located by a click.
C8_ParseFormatRoundTrip ==
    /\ (variant = "v2" /\ context.active) =>
           \A d \in InsertableDates :
               rawQuery(line, cursor) = Format(d, settings.dateFormat) => lastParsed = d
    /\ (variant = "v3" /\ located.res.found) =>
           \A d \in InsertableDates :
               innerText = Format(d, settings.dateFormat) => lastParsed = d

----------------------------------------------------------------------------
(* Properties of onTrigger, checked under SpecTrigger                      *)

\* the fragment after the last '@' before the cursor
fragment == rawQuery(line, cursor)

\* C9: no suggestions are offered for a fragment of more than 20 characters
\* or with more than 2 spaces.
C9_FragmentLimits ==
    context.active =>
        /\ Len(fragment) <= 20
        /\ Cardinality({i \in DOMAIN fragment : fragment[i] = " "}) <= 2

\* C10: no suggestions are offered when the character after the last '@'
\* before the cursor is a space.
C10_SpaceAfterTrigger ==
    context.active => CharAt(fragment, 0) # " "

----------------------------------------------------------------------------
(* Properties of the suggester for a typed fragment, checked under         *)
(* SpecQuery                                                               *)

\* text f begins with an asterisk, a date in one of the formats fmts and an
\* asterisk
StartsWithWrapped(f, fmts) ==
    \E k \in 2..(Len(f) - 1) :
        /\ f[1] = "*"
        /\ f[k + 1] = "*"
        /\ ParseStrict(Substring(f, 1, k), fmts, today).valid

\* C11, as the code has it: onTrigger returns null whenever the fragment,
\* white space trimmed, begins with a date in the form M/D/YY or MM/DD/YY
\* between asterisks, with or without text after it.
C11_CompletedDateNotRetriggered ==
    (variant = "v2" /\ StartsWithWrapped(Trim(fragment), <<MM_DD_YY, M_D_YY>>)) =>
        ~context.active

\* C11 as stated: onTrigger returns null whenever the fragment begins with a
\* date in any catalog format between asterisks.
C11_AnyCompletedDate ==
    (variant = "v2" /\ StartsWithWrapped(Trim(fragment), catalogFormats)) => ~context.active

\* no suggestions for '@*02/05/25* x': a completed date with text after it
C11_CompletedDateTyped ==
    /\ variant = "v2"
    /\ StartsWithWrapped(fragment, <<MM_DD_YY>>)
    /\ Len(fragment) > 10
    /\ ~context.active
    /\ suggestions = <<>>

\* the number of suggestions with the given label
CountLabel(label) == Cardinality({k \in DOMAIN suggestions : suggestions[k].label = label})

\* month a and day b are a date of year y
RealDate(y, a, b) == a \in 1..12 /\ b >= 1 /\ b <= daysInMonth(y, a)

\* the two numbers of a fragment <1-2 digits><'/' or '-'><1-2 digits> are a
\* date of the current year
PartialResolves(pm) ==
    pm # <<>> /\ RealDate(today.y, ToInt(pm[1]), ToInt(pm[2]))

\* the parser resolves the fragment to a date: by the strict parse or as a
\* month and a day of the current year
Resolves ==
    \/ ParseStrict(fragment, triggerFormats, today).valid
    \/ PartialResolves(partialDateMatch(fragment))

\* C12: the suggestions hold one 'Insert date' suggestion when the parser
\* resolved the fragment to a date and none when it did not.
C12_InsertIffParsed ==
    (variant = "v2" /\ context.active) =>
        CountLabel("Insert date") = (IF Resolves THEN 1 ELSE 0)

\* C13: the suggestions returned for a trigger are not empty and the last
\* one is 'Pick a date...', no date, whether or not the query parsed.
C13_PickADateLast ==
    context.active =>
        /\ suggestions # <<>>
        /\ suggestions[Len(suggestions)] = PickADate
        /\ ~suggestions[Len(suggestions)].isDate

\* a fragment that did not parse has 'Pick a date...' as its one suggestion
C13_OnlyPickADate ==
    /\ context.active
    /\ variant = "v2"
    /\ fragment # <<>>
    /\ ~Resolves
    /\ suggestions = <<PickADate>>

\* text f has nothing but white space
Blank(f) == \A i \in DOMAIN f : f[i] \in WhiteSpace

C15_NumericPartial ==
    (variant = "v2" /\ partialDateMatch(fragment) # <<>>) =>
        /\ context.active
        /\ \E a \in {ToInt(partialDateMatch(fragment)[1])} :
           \E b \in {ToInt(partialDateMatch(fragment)[2])} :
               /\ context.query = (IF RealDate(today.y, a, b)
                                   THEN Format(Moment(today.y, a, b), queryFormat)
                                   ELSE fragment)
               /\ CountLabel("Insert date") = (IF RealDate(today.y, a, b) THEN 1 ELSE 0)

\* '3-3' typed in 2024 gives 3 March 2024
C15_ThirdOfMarch ==
    /\ variant = "v2"
    /\ today.y = 2024
    /\ fragment = <<"3", "-", "3">>
    /\ context.active
    /\ context.query = Format(Moment(2024, 3, 3), queryFormat)

\* the month, day and year a numeric fragment gives, read month first (or,
\* after a year of four digits, year first): g1, g2, g3 are the lengths of
\* its runs of digits; ok is FALSE for any other fragment
NumericDate(f, g1, g2, g3) ==
    IF g1 = 0 \/ g2 = 0 \/ CharAt(f, g1) \notin {"/", "-"}
    THEN [ok |-> FALSE, y |-> 0, m |-> 0, d |-> 0]
    ELSE IF Len(f) = g1 + g2 + 1
    THEN [ok |-> TRUE, y |-> today.y,
          m |-> ToInt(Substring(f, 0, g1)), d |-> ToInt(Substring(f, g1 + 1, g1 + 1 + g2))]
    ELSE IF g3 \in {2, 4} /\ CharAt(f, g1 + g2 + 1) \in {"/", "-"} /\ Len(f) = g1 + g2 + g3 + 2
    THEN IF g1 = 4
         THEN [ok |-> TRUE, y |-> ToInt(Substring(f, 0, g1)),
               m |-> ToInt(Substring(f, g1 + 1, g1 + 1 + g2)),
               d |-> ToInt(From(f, g1 + g2 + 2))]
         ELSE [ok |-> TRUE,
               y |-> IF g3 = 2 THEN parseTwoDigitYear(ToInt(From(f, g1 + g2 + 2)))
                     ELSE ToInt(From(f, g1 + g2 + 2)),
               m |-> ToInt(Substring(f, 0, g1)),
               d |-> ToInt(Substring(f, g1 + 1, g1 + 1 + g2))]
    ELSE [ok |-> FALSE, y |-> 0, m |-> 0, d |-> 0]

NumericDateOf(f, g1, g2) == NumericDate(f, g1, g2, DigitRunAt(f, g1 + g2 + 2))

\* the month, day and year of the typed fragment, when it is numeric
fragmentDate == NumericDateOf(fragment, DigitRunAt(fragment, 0),
                              DigitRunAt(fragment, DigitRunAt(fragment, 0) + 1))

\* C16: a numeric fragment whose month is outside 1..12, or whose day is
\* outside the month, gives no date: the fragment is handed on as the raw
\* query and no date is suggested for insertion.
C16_NoDateOutOfRange ==
    (variant = "v2" /\ fragmentDate.ok
        /\ ~RealDate(fragmentDate.y, fragmentDate.m, fragmentDate.d)) =>
        /\ context.active
        /\ context.query = fragment
        /\ ~lastParsed.valid
        /\ CountLabel("Insert date") = 0

\* '13/40/99' is handed on as raw text
C16_MonthThirteen ==
    /\ variant = "v2"
    /\ fragment = <<"1", "3", "/", "4", "0", "/", "9", "9">>
    /\ fragmentDate.ok
    /\ context.active
    /\ context.query = fragment
    /\ suggestions = <<PickADate>>

\* the month whose name begins with word w (lower case), or 0
MonthOfPrefix(w) ==
    IF \E m \in 1..12 : Substring(monthsLower[m], 0, Len(w)) = w
    THEN CHOOSE m \in 1..12 : Substring(monthsLower[m], 0, Len(w)) = w
    ELSE 0

\* the parts of a fragment '<month word> <day> <year>': wl, dl, yl are the
\* lengths of the word and of the two runs of digits; ok is FALSE for any
\* other fragment
WordDate(f, wl, dl, yl) ==
    IF /\ wl >= 3
       /\ CharAt(f, wl) = " "
       /\ dl \in {1, 2}
       /\ CharAt(f, wl + 1 + dl) = " "
       /\ yl >= 1
       /\ Len(f) = wl + dl + yl + 2
    THEN [ok |-> TRUE, m |-> MonthOfPrefix(LowerStr(Substring(f, 0, wl))),
          d |-> ToInt(Substring(f, wl + 1, wl + 1 + dl)),
          y |-> ToInt(From(f, wl + dl + 2)), yl |-> yl]
    ELSE [ok |-> FALSE, m |-> 0, d |-> 0, y |-> 0, yl |-> 0]

WordDateOf(f, wl, dl) == WordDate(f, wl, dl, DigitRunAt(f, wl + dl + 2))

\* the parts of the typed fragment, when it is a month word, a day and a year
fragmentWordDate ==
    WordDateOf(fragment, LetterRunAt(fragment, 0),
               DigitRunAt(fragment, LetterRunAt(fragment, 0) + 1))

\* C17: a fragment '<month word> <day> <2- or 4-digit year>' whose word is
\* the beginning of a month name, in any case, parses to that month and day,
\* a year of two digits meaning 2000 + its value.
C17_MonthWordPrefix ==
    (variant = "v2" /\ fragmentWordDate.ok /\ fragmentWordDate.yl \in {2, 4}
        /\ fragmentWordDate.m # 0) =>
        \E y \in {IF fragmentWordDate.yl = 2 THEN 2000 + fragmentWordDate.y
                   ELSE fragmentWordDate.y} :
            RealDate(y, fragmentWordDate.m, fragmentWordDate.d) =>
                /\ context.active
                /\ lastParsed = Moment(y, fragmentWordDate.m, fragmentWordDate.d)

\* C18: a fragment '<month word> <day> <1 digit>' parses to that month and
\* day of the current year when the digit is the last digit of the current
\* year, and is no date otherwise.
C18_SingleDigitYear ==
    (variant = "v2" /\ fragmentWordDate.ok /\ fragmentWordDate.yl = 1
        /\ fragmentWordDate.m # 0
        /\ RealDate(today.y, fragmentWordDate.m, fragmentWordDate.d)) =>
        /\ context.active
        /\ IF fragmentWordDate.y = today.y % 10
           THEN /\ lastParsed = Moment(today.y, fragmentWordDate.m, fragmentWordDate.d)
                /\ CountLabel("Insert date") = 1
           ELSE /\ ~lastParsed.valid
                /\ context.query = fragment

\* the starts of the candidate spans acceptable for offset ch
StartsOf_v2(ln, ch, now, spans) ==
    {spans[k].start : k \in {j \in DOMAIN spans : Accepted_v2(ln, ch, now, spans[j])}}

StartsOf_v3(ln, ch, spans) ==
    {WithAsterisks(ln, spans[k].start, spans[k].end).start :
        k \in {j \in DOMAIN spans : InMatch_v3(ch, spans[j])}}

AcceptableStarts ==
    IF variant = "v2" THEN StartsOf_v2(line, located.ch, today, dateRegexMatches(line, 0))
    ELSE IF line = <<>> THEN {}
    ELSE StartsOf_v3(line, located.ch, allMatches(line))

\* C19: after a click, the span located is the acceptable candidate that
\* starts leftmost in the line, and when no candidate is acceptable the
\* result is the not-found value (null, -1, -1).
C19_LeftmostCandidate ==
    located # NothingLocated =>
        IF AcceptableStarts = {} THEN located.res = NotFound
        ELSE /\ located.res.found
             /\ \A st \in AcceptableStarts : located.res.start <= st

\* C20: after an insertion the cursor is at the start of the insertion plus
\* the length of the date written, plus 1 exactly when no space followed
\* the replaced range, so that a space had to be written after the date.
C20_CursorAfterSeparator ==
    lastEdit.by # "none" =>
        cursor = writtenEnd + (IF CharAt(lastEdit.before, lastEdit.to) = " " THEN 0 ELSE 1)

----------------------------------------------------------------------------
(* Properties of a session with a format the settings tab does not offer,  *)
(* checked under SpecLoaded                                                *)

\* C21: when the format of the settings is not one of the formats the
\* settings tab offers, formatting a date fails: no text is written into
\* the document.
C21_UnknownFormatFails ==
    settings.dateFormat \notin settingsFormats(variant) => lastEdit.by = "none"

----------------------------------------------------------------------------
(* Properties of the 'Enable clicking on dates' setting, checked under     *)
(* SpecSettings                                                            *)

\* a click opens the date modal in this step
ClickOpensModal == ~modal.open /\ modal'.open /\ modal'.source = "click"

\* C22 as stated: while 'Enable clicking on dates' is off, no click opens
\* the date modal (and so none changes the document).
C22_OffMeansNoModal == [][~settings.enableClickDates => ~ClickOpensModal]_vars

\* C22: when the plugin is loaded with 'Enable clicking on dates' off and
\* the setting stays off, no click ever opens the date modal and the
\* document is never changed.
C22_OffSinceLoad ==
    [](~settings.enableClickDates) =>
        [](~modal.open /\ lastEdit.by = "none" /\ located = NothingLocated)

\* a date was clicked on with the setting off and no listener registered
C22_ClickIgnored ==
    /\ ~settings.enableClickDates
    /\ ~plugin.clickListener
    /\ cursor > 0
    /\ findDateAtPosition_v2(line, cursor, today).found
    /\ ~modal.open

----------------------------------------------------------------------------
(* Properties of successive calls, checked under Spec                      *)

----------------------------------------------------------------------------
(* Properties of the Confirm button, checked under Spec                    *)

\* text is a strictly valid 'YYYY-MM-DD' calendar date
ValidISO(text) == text # <<>> /\ ParseFormat(text, ISO, TRUE, today).valid

\* C25: with the modal open, the document changes (onSubmit is called) only
\* when the selected date is a strictly valid 'YYYY-MM-DD' date, and the modal
\* is closed by that step, so that there is no second call; with an empty or
\* invalid selected date the document stays as it is and nothing is
\* submitted.
C25_SubmitOnlyValid ==
    [][modal.open =>
          /\ (line' # line \/ edits' # edits \/ lastEdit' # NoEdit) =>
                 (ValidISO(modal.selected) /\ ~modal'.open /\ edits' = edits + 1)
          /\ ~ValidISO(modal.selected) =>
                 (line' = line /\ cursor' = cursor /\ lastEdit' = NoEdit)]_vars

\* the date picked in a modal that 'Pick a date...' opened has been submitted
C25_Submitted ==
    /\ ~modal.open
    /\ lastEdit.by = "picker"
    /\ line # lastEdit.before

----------------------------------------------------------------------------
(* v3, the '@' trigger switched on and off: SpecLifecycle                  *)

LifecycleLines == {<<>>, <<"x", " ">>}

InitLifecycle ==
    /\ variant = "v3"
    /\ settings \in {[DEFAULT_SETTINGS("v3") EXCEPT !.enableAtTrigger = b] : b \in BOOLEAN}
    /\ plugin = onload(variant, settings)
    /\ today \in Todays
    /\ line \in LifecycleLines
    /\ cursor = Len(line)
    /\ anchor = cursor
    /\ located = NothingLocated
    /\ lastParsed = InvalidMoment
    /\ modal = NoModal
    /\ calendar = NoCalendar
    /\ context = NoTrigger
    /\ suggestions = <<>>
    /\ lastEdit = NoEdit
    /\ edits = 0

NextLifecycle ==
    \/ TypeText(<<"@">>)
    \/ \E k \in 1..4 : SelectSuggestion(k)
    \/ ModalConfirm
    \/ ModalClose
    \/ ToggleAtTrigger
    \/ Unload
    \/ Reload

SpecLifecycle == InitLifecycle /\ [][NextLifecycle]_vars

----------------------------------------------------------------------------
(* v3, the 'Insert or Update Date' command: SpecCommand                    *)

\* a line that holds a date and a word
CommandLines == {Format(Moment(2025, 2, 5), MM_DD_YYYY) \o <<" ", "x">>}

\* the ends of the selections made: of the date, of the word, of nothing
SelectOffsets(ln) == {0, 10, Len(ln) - 1, Len(ln)}

InitCommand ==
    /\ variant = "v3"
    /\ settings = DEFAULT_SETTINGS("v3")
    /\ plugin = onload(variant, settings)
    /\ today \in Todays
    /\ line \in CommandLines
    /\ cursor \in {0, Len(line)}
    /\ anchor = cursor
    /\ located = NothingLocated
    /\ lastParsed = InvalidMoment
    /\ modal = NoModal
    /\ calendar = NoCalendar
    /\ context = NoTrigger
    /\ suggestions = <<>>
    /\ lastEdit = NoEdit
    /\ edits = 0

NextCommand ==
    \/ \E a \in SelectOffsets(line) : \E h \in SelectOffsets(line) : Select(a, h)
    \/ InsertUpdateCommand
    \/ \E sel \in PickTexts : ModalPick(sel)
    \/ ModalConfirm
    \/ ModalClose

SpecCommand == InitCommand /\ [][NextCommand]_vars

----------------------------------------------------------------------------
(* The custom calendar: SpecCalendar                                       *)

\* a line with a date near the end of a month, and place for '@'; the
\* session is at its last edit
CalendarLines == {wrap_v2(Format(Moment(2025, 1, 30), MM_DD_YY)) \o <<" ">>}

InitCalendar ==
    /\ variant = "v2"
    /\ settings = [DEFAULT_SETTINGS("v2") EXCEPT !.useCustomCalendar = TRUE]
    /\ plugin = onload(variant, settings)
    /\ today \in Todays
    /\ line \in CalendarLines
    /\ cursor = Len(line)
    /\ anchor = cursor
    /\ located = NothingLocated
    /\ lastParsed = InvalidMoment
    /\ modal = NoModal
    /\ calendar = NoCalendar
    /\ context = NoTrigger
    /\ suggestions = <<>>
    /\ lastEdit = NoEdit
    /\ edits = MaxEdits - 1

NextCalendar ==
    \/ \E ch \in {1, Len(line)} : Click(ch)
    \/ TypeText(<<"@">>)
    \/ \E k \in 1..2 : SelectSuggestion(k)
    \/ \E n \in {-1, 1} : CalendarMonth(n)
    \/ \E i \in GridPlaces : CalendarDateClick(i)
    \/ \E key \in ArrowKeys : CalendarArrow(key)
    \/ CalendarEnter
    \/ ModalConfirm
    \/ ModalClose

SpecCalendar == InitCalendar /\ [][NextCalendar]_vars

----------------------------------------------------------------------------
(* Properties of the modal, checked under SpecModal                        *)

\* what the modal's constructor parses from the string it is given
constructorParse(v, current, now) ==
    IF current = Null THEN InvalidMoment
    ELSE CASE v = "v3" -> ParseStrict(stripAsterisks(current), modalFormats, now)
           [] OTHER    -> ParseFormat(current, ISO, TRUE, now)

InitialisedTo(m, parsed) ==
    m.selected = Format(IF parsed.valid THEN parsed ELSE today, ISO)

\* C24: when the modal opens, its selected date is the date its constructor
\* parsed from the string it was given and, when it was given null or a
\* string that does not parse, today's date, as 'YYYY-MM-DD'.
C24_SelectedDateInitialised ==
    [][(~modal.open /\ modal'.open) =>
          InitialisedTo(modal', constructorParse(variant, modal'.current, today))]_vars

----------------------------------------------------------------------------
(* Properties of the custom calendar, checked under SpecCalendar           *)

\* the places of the grid of month mo whose button shows the date text sel
PlacesOf(mo, sel) == {i \in 0..41 : Format(gridDate(mo, i), ISO) = sel}

\* C27: in the custom calendar, the buttons drawn with the 'selected'
\* highlight are exactly the buttons of the modal's selected date in the grid
\* that is displayed.
C27_HighlightIsSelected ==
    calendar.shown =>
        PlacesOf(calendar.drawnMonth, calendar.drawnSelected)
            = PlacesOf(calendar.drawnMonth, modal.selected)

\* the number of a day, counted from 0000-03-01
dayNumber(dt) ==
    LET y == IF dt.m < 3 THEN dt.y - 1 ELSE dt.y
        m == IF dt.m < 3 THEN dt.m + 9 ELSE dt.m - 3
    IN  365 * y + (y \div 4) - (y \div 100) + (y \div 400)
          + ((153 * m + 2) \div 5) + dt.d - 1

\* this step is a click or a key the calendar has handled
CalendarHandled ==
    calendar.shown /\ calendar'.shown /\ calendar'.keys = calendar.keys + 1

\* C28: an arrow key moves the focused date by exactly -1, +1, -7 or +7 days,
\* shows the month of the focused date and changes nothing else; the arrow
\* keys and the previous/next buttons leave the selected date alone, and the
\* buttons the focused date too; Enter makes the focused date the selected
\* date; the selected date changes only by Enter or a click on a date button;
\* closing the calendar's modal without an edit (Escape) leaves the document
\* as it is.
C28_KeysAndButtons ==
    [][/\ (CalendarHandled /\ calendar'.key \in ArrowKeys) =>
            /\ dayNumber(calendar'.focusedDate) - dayNumber(calendar.focusedDate)
                  = (CASE calendar'.key = "ArrowLeft"  -> -1
                       [] calendar'.key = "ArrowRight" -> 1
                       [] calendar'.key = "ArrowUp"    -> -7
                       [] calendar'.key = "ArrowDown"  -> 7)
            /\ calendar'.currentMonth = monthOf(calendar'.focusedDate)
            /\ calendar'.drawnMonth = calendar'.currentMonth
            /\ modal' = modal
            /\ line' = line
       /\ (CalendarHandled /\ calendar'.key \in {"prev", "next"}) =>
            /\ modal' = modal
            /\ calendar'.focusedDate = calendar.focusedDate
            /\ calendar'.currentMonth # calendar.currentMonth
            /\ line' = line
       /\ (CalendarHandled /\ calendar'.key = "Enter") =>
            /\ modal'.selected = Format(calendar.focusedDate, ISO)
            /\ calendar'.focusedDate = calendar.focusedDate
            /\ line' = line
       /\ (CalendarHandled /\ modal'.selected # modal.selected) =>
            calendar'.key \in {"Enter", "click"}
       /\ (calendar.shown /\ ~modal'.open /\ edits' = edits) =>
            (line' = line /\ lastEdit' = NoEdit)]_vars

\* ArrowRight has moved the focus from the last day of a month into the next
\* month, which is now shown, and the selected date is still the one the
\* modal was opened with
C28_ArrowIntoNextMonth ==
    /\ calendar.shown
    /\ calendar.key = "ArrowRight"
    /\ calendar.focusedDate.d = 1
    /\ calendar.currentMonth = monthOf(calendar.focusedDate)
    /\ modal.selected = modal.current
    /\ Format(calendar.focusedDate, ISO) # modal.selected

----------------------------------------------------------------------------
(* Properties of the '@' trigger's switch, checked under SpecLifecycle     *)

\* C26: the plugin holds a DateSuggester if and only if it is loaded and
\* enableAtTrigger is true; the workspace's list holds at most one
\* DateSuggester of the plugin, none that cleanupAtTrigger has discarded, and
\* the one the plugin holds if it holds one.
C26_OneSuggesterWhenEnabled ==
    /\ (plugin.dateSuggester # 0) <=> (plugin.loaded /\ settings.enableAtTrigger)
    /\ Len(plugin.suggests) <= 1
    /\ \A i \in 1..Len(plugin.suggests) : plugin.suggests[i] \notin plugin.discarded
    /\ plugin.dateSuggester # 0 => plugin.suggests = <<plugin.dateSuggester>>

\* the trigger has been switched off and on again: the plugin holds its
\* third DateSuggester and has discarded two
C26_SwitchedTwice ==
    /\ plugin.loaded
    /\ plugin.dateSuggester = 3
    /\ plugin.discarded = {1, 2}

----------------------------------------------------------------------------
(* Properties of the trigger's range, checked under Spec                   *)

\* offset at is the last '@' of ln before offset pos
LastAtBefore(ln, at, pos) ==
    /\ 0 <= at /\ at < pos
    /\ ln[at + 1] = "@"
    /\ \A j \in (at + 1)..(pos - 1) : ln[j + 1] # "@"

\* C29: for the line and the cursor of every state, onTrigger returns null
\* when no '@' precedes the cursor, and otherwise null or a range from the
\* last '@' before the cursor to the cursor; and a replaceRange made by
\* selecting a date suggestion has replaced '@' and the fragment after it
\* (a range from the last '@' before its end) by text in asterisks and the
\* separator after it, every character before the '@' and after the range's
\* end being as before.
C29_TriggerRangeAndFrame ==
    /\ LET info == onTrigger(variant, line, cursor, today)
       IN  /\ (\A j \in 1..cursor : line[j] # "@") => ~info.active
           /\ info.active => (LastAtBefore(line, info.start, cursor) /\ info.end = cursor)
    /\ context.active => (LastAtBefore(line, context.start, cursor) /\ context.end = cursor)
    /\ lastEdit.by = "suggestion" =>
          /\ LastAtBefore(lastEdit.before, lastEdit.from, lastEdit.to)
          /\ Substring(line, 0, lastEdit.from) = Substring(lastEdit.before, 0, lastEdit.from)
          /\ Substring(line, lastEdit.from, lastEdit.from + Len(lastEdit.text)) = lastEdit.text
          /\ From(line, lastEdit.from + Len(lastEdit.text)) = From(lastEdit.before, lastEdit.to)
          /\ Head(lastEdit.text) = "*"
          /\ Trim(lastEdit.text)[Len(Trim(lastEdit.text))] = "*"

\* a date suggestion has been selected for an '@' typed between other
\* characters of the line
C29_ReplacedInsideLine ==
    /\ lastEdit.by = "suggestion"
    /\ lastEdit.from > 0
    /\ lastEdit.to < Len(lastEdit.before)

----------------------------------------------------------------------------
(* Properties of the command, checked under SpecCommand                    *)

\* the smaller and the larger of two offsets
Lower(a, b) == IF a < b THEN a ELSE b
Upper(a, b) == IF a < b THEN b ELSE a

\* C30: when the date of a modal the command opened is confirmed, the line
\* is the line before with the selected text replaced by the text written;
\* with an empty selection that is the text inserted at the cursor.
C30_CommandReplacesSelection ==
    [][(modal.open /\ modal.source = "command" /\ lastEdit'.by = "command") =>
          line' = Substring(line, 0, Lower(anchor, cursor)) \o lastEdit'.text
                    \o From(line, Upper(anchor, cursor))]_vars

\* the command's date has been confirmed for a selection of the line's
\* date, and the line still holds the selected date
C30_SelectedTextKept ==
    /\ lastEdit.by = "command"
    /\ lastEdit.from = 10
    /\ Substring(line, 0, 10) = Format(Moment(2025, 2, 5), MM_DD_YYYY)
    /\ Len(line) > Len(lastEdit.before)

====
